---- MODULE Spec2Model ----
(***************************************************************************)
(* The fastq -> sequencing-summary pipeline of pycoQC                      *)
(* (src/pycoQC/Fastq_to_seq_summary.py, class Fastq_to_seq_summary).       *)
(*                                                                         *)
(* One orchestrator (the constructor) starts a list of processes           *)
(*     ps_list = [ _list_fastq, _read_fastq * N, _write_seq_summary ]      *)
(* that talk through four multiprocessing queues:                          *)
(*     in_q (paths, bounded), out_q (records, bounded),                    *)
(*     error_q (tracebacks and the final None), counter_q (counters).      *)
(* A queue is a FIFO sequence; put and get are single steps, put on a      *)
(* bounded queue is enabled only while the queue holds fewer items than    *)
(* its maxsize, get only while it holds one.                               *)
(* What a put hands over is pickled later, by the feeder thread of the     *)
(* queue: a record put on out_q is the dict d as it is when it is pickled. *)
(*                                                                         *)
(* The input of a run is fixed in Init: the constructor's arguments and    *)
(* the files that the directory walk yields, in the order it yields them.  *)
(***************************************************************************)
EXTENDS Integers, Sequences, FiniteSets, TLC

\* ------------------------------------------------------------------ bounds
\* The model's bounds.  QueueCap stands for maxsize=1000 of in_q and out_q.
MaxThreads == 4
MaxFiles == 2
MaxReads == 2
MaxTotal == 3
MaxTs == 2
MaxCap == 2
QueueCap == 1
\* The longest sequence line and the longest quality line of a read.
MaxSeq == 3
\* The most whole read groups of a file, and the read groups of a chunk:
\* ChunkGroups stands for the 1000 groups of the 4000 lines of a chunk.
MaxGroups == 3
ChunkGroups == 2

\* ---------------------------------------------------------------- constants
\* threads < 3 is rejected (line 213); two of the threads are the reader and
\* the writer (line 219).
MinThreads == 3
Reserved == 2
\* time_string = '' when the header has no start_time (line 90): to_datetime
\* turns it into NaT.  Valid timestamps are 1..MaxTs.
NaT == 0
\* The start_time of a row whose timestamp is NaT stays NaN (lines 362-365).
NaN == -1
\* phred = ord(letter) - 33 (line 105).
PhredOffset == 33
\* if len(lines) == 4 (line 52).
GroupLines == 4

VARIABLES
    \* the constructor's arguments and the directory's content
    fastq_dir_ok,   \* os.access(fastq_dir, R_OK)
    out_dir_ok,     \* os.access(dirname(seq_summary_fn), W_OK)
    threads,        \* the threads argument
    max_fastq,      \* the max_fastq argument
    files,          \* what recursive_file_gen yields, in order
    walk_raises,    \* whether recursive_file_gen raises after the last file
    fields,         \* the fields argument
    include_path,   \* the include_path argument
    earlier,        \* how earlier runs over the same directory ended
    \* the orchestrator (__init__)
    orch,           \* its position
    oi,             \* index in ps_list of the current for loop
    tb,             \* what the orchestrator got from error_q, <<>> before
    raised,         \* the exceptions raised to the caller
    \* the processes of ps_list
    pc,             \* pc[k]: position of ps_list[k]
    \* the queues
    in_q, out_q, error_q, counter_q,
    \* _list_fastq
    i,              \* its counter i
    npush,          \* paths put on in_q so far
    nsent,          \* Nones put on in_q so far
    \* _read_fastq
    fastq_fn,       \* fastq_fn[w]: the path worker w took from in_q last
    value_dict,     \* value_dict[w]: reads of the current file not yet handled
    fed,            \* fed[w]: how far d was overwritten when w's last record of this file was pickled
    worker_c,       \* worker_c[w]: the counters c of worker w
    \* _write_seq_summary
    l,              \* the list l
    nsrc,           \* iterations of "for _ in range(self.threads)" finished
    ncnt,           \* counters read from counter_q
    counts,         \* the counters c of the writer, summed over those read
    csv,            \* seq_summary_fn: whether it is written, its header, its rows
    \* FastqParser, over one chunk of one file
    chunk,          \* the lines of the chunk, as read from the file
    flag,           \* the flag argument: "pass" or "fail"
    lines,          \* the list lines of read_entry
    entry_dict,     \* what single_fastq_entry_to_dict returned
    exc,            \* the exception it raised, "" when none
    d,              \* the OrderedDict d of _read_fastq
    c,              \* the counters c of _read_fastq
    ppos,           \* the position in the chunk's handling
    \* FastqParser.iterate_fastq_parallel, over one file
    input_fastq,    \* the lines of the file input_fastq
    jobs,           \* the list jobs: each job's chunk, its state, what it returned
    results,        \* the list results
    fastq_dict,     \* the dict fastq_dict
    ipos,           \* the position in iterate_fastq_parallel
    \* history, read by no action
    popped,         \* the paths taken from in_q so far, in order
    sent            \* the records put on out_q so far, in order

inputs == <<fastq_dir_ok, out_dir_ok, threads, max_fastq, files, walk_raises, fields,
            include_path>>
pool == <<input_fastq, jobs, results, fastq_dict, ipos>>
parser == <<chunk, flag, lines, entry_dict, exc, d, c, ppos, pool>>
queues == <<in_q, out_q, error_q, counter_q>>
lister == <<i, npush, nsent>>
writer == <<l, nsrc, ncnt, counts, csv>>
reader == <<fastq_fn, value_dict, fed, worker_c>>
history == <<popped, sent>>
vars == <<inputs, earlier, history, parser, orch, oi, tb, raised, pc, queues, lister, reader, writer>>

\* ------------------------------------------------------------------ values
\* The poison pill: None on in_q, out_q and error_q.
None == [tag |-> "None"]
Path(f) == [tag |-> "path", fn |-> f]
Error(by, msg) == [tag |-> "err", by |-> by, msg |-> msg]
NoFastq == Error("_list_fastq", "No valid fastq files found in indicated folder")
IsError(m) == m.tag = "err"
HasError(q) == \E k \in 1..Len(q) : IsError(q[k])
\* Lines 277-281: what recursive_file_gen raised, caught by _list_fastq.
WalkError == Error("_list_fastq", "recursive_file_gen")
NoFile == [written |-> FALSE, header |-> <<>>, rows |-> <<>>]
Range(s) == {s[k] : k \in 1..Len(s)}

\* Lines 178-180: the default of the fields argument.
DefaultFields ==
    <<"read_id", "run_id", "channel", "start_time", "gc_percent",
      "sequence_length_template", "mean_qscore_template",
      "calibration_strand_genome_template", "barcode_arrangement">>

\* Lines 123-131: the keys of the dict single_fastq_entry_to_dict makes for
\* a read, the same for every read.
EntryKeys ==
    {"read_id", "run_id", "channel", "barcode_arrangement", "sequence_length_template",
     "mean_qscore_template", "gc_percent", "start_time", "passes_filtering"}

\* The fields arguments tried besides the default: two orders, one without
\* start_time, one with no key of EntryKeys, one that names a field twice.
FieldLists ==
    {DefaultFields,
     <<"read_id", "start_time">>,
     <<"read_id", "start_time", "read_id">>,
     <<"start_time", "barcode_arrangement", "read_id">>,
     <<"read_id", "mean_qscore_template">>,
     <<"calibration_strand_genome_template">>}

\* The value d has under a key it does not hold.
Missing == -2

\* A file the walk yields: unreadable or corrupt (ok = FALSE), or the
\* timestamps of its reads in file order.
SeqsUpTo(S, n) == UNION {[1..m -> S] : m \in 0..n}
FileSet ==
    {[ok |-> FALSE, ts |-> <<>>]}
        \cup {[ok |-> TRUE, ts |-> t] : t \in SeqsUpTo(0..MaxTs, MaxReads)}

\* The directories tried: at most MaxFiles files with MaxTotal reads in all.
RECURSIVE NReads(_)
NReads(fs) == IF fs = <<>> THEN 0 ELSE Len(Head(fs).ts) + NReads(Tail(fs))
FileLists == {fs \in SeqsUpTo(FileSet, MaxFiles) : NReads(fs) <= MaxTotal}

\* The reads of file number f: read_ids are pairwise distinct.
ReadsOf(f) ==
    [j \in 1..Len(files[f].ts) |->
        [id |-> f * (MaxReads + 1) + j, ts |-> files[f].ts[j]]]

\* self.threads = threads - 2: the number of _read_fastq processes.
N == threads - Reserved
\* len(ps_list), and the places of the processes in it.
NP == N + 2
Lister == 1
Workers == 1..N
Proc(w) == 1 + w
Writer == NP
K == Len(files)

\* NotFull of a queue made without maxsize.
NotFullEver(q) == Len(q) >= 0

\* NotFull of a queue that takes one item more than its maxsize.
NotFullOneMore(q) == Len(q) <= QueueCap

\* in_q = mp.Queue(maxsize=1000), out_q = mp.Queue(maxsize=1000)
NotFull(q) == Len(q) < QueueCap

\* -------------------------------------------------------------------- Init
\* No file is being parsed.
PoolIdle ==
    /\ input_fastq = <<>> /\ jobs = <<>> /\ results = <<>> /\ fastq_dict = <<>>
    /\ ipos = "idle"

\* No chunk is being handled.
Idle ==
    /\ chunk = <<>> /\ flag = "pass" /\ lines = <<>>
    /\ entry_dict = <<>> /\ exc = "" /\ d = <<>> /\ c = <<>>
    /\ ppos = "idle"
    /\ PoolIdle

\* Lines 292 and 372: c = {"overall": Counter(), "fields_found": Counter(),
\* "fields_not_found": Counter()}, a Counter having 0 under every key.
NoCounts ==
    [fields_found |-> [field \in Range(fields) |-> 0],
     fields_not_found |-> [field \in Range(fields) |-> 0],
     valid |-> 0,
     invalid |-> 0]

\* Lines 311-314, 321-324 and 380-381: c[k][k2] += v2, for every k and k2.
Plus(a, b) ==
    [fields_found |->
        [field \in Range(fields) |-> a.fields_found[field] + b.fields_found[field]],
     fields_not_found |->
        [field \in Range(fields) |-> a.fields_not_found[field] + b.fields_not_found[field]],
     valid |-> a.valid + b.valid,
     invalid |-> a.invalid + b.invalid]

\* Lines 226-237: the queues are empty, no process is started.
Start ==
    /\ earlier = <<>>
    /\ orch = "init"
    /\ oi = 0
    /\ tb = <<>>
    /\ raised = <<>>
    /\ pc = [k \in 1..NP |-> "new"]
    /\ in_q = <<>> /\ out_q = <<>> /\ error_q = <<>> /\ counter_q = <<>>
    /\ i = 0 /\ npush = 0 /\ nsent = 0
    /\ fastq_fn = [w \in Workers |-> 0]
    /\ value_dict = [w \in Workers |-> <<>>]
    /\ fed = [w \in Workers |-> 0]
    /\ worker_c = [w \in Workers |-> NoCounts]
    /\ l = <<>> /\ nsrc = 0 /\ ncnt = 0
    /\ counts = NoCounts
    /\ csv = NoFile
    /\ popped = <<>> /\ sent = <<>>

Init ==
    /\ fastq_dir_ok \in BOOLEAN
    /\ out_dir_ok \in BOOLEAN
    /\ threads \in (MinThreads - 1)..MaxThreads
    /\ max_fastq \in 0..MaxCap
    /\ files \in FileLists
    /\ walk_raises = FALSE
    /\ fields = DefaultFields
    /\ include_path = FALSE
    /\ Idle
    /\ Start

\* ------------------------------------------------------------ orchestrator
\* ConfigError with the threads check off by one.
ConfigErrorLax ==
    IF ~fastq_dir_ok THEN <<Error("__init__", "Cannot read the indicated fastq directory")>>
    ELSE IF ~out_dir_ok THEN <<Error("__init__", "Cannot write the indicated seq_summary_fn")>>
    ELSE IF threads < MinThreads - 1 THEN <<Error("__init__", "At least 3 threads required")>>
    ELSE <<>>

\* Lines 209-214: the checks, in order.
ConfigError ==
    IF ~fastq_dir_ok THEN <<Error("__init__", "Cannot read the indicated fastq directory")>>
    ELSE IF ~out_dir_ok THEN <<Error("__init__", "Cannot write the indicated seq_summary_fn")>>
    ELSE IF threads < MinThreads THEN <<Error("__init__", "At least 3 threads required")>>
    ELSE <<>>

\* Lines 207-237: the checks, then the queues and ps_list are made.
Construct ==
    /\ orch = "init"
    /\ IF ConfigError # <<>>
       THEN /\ raised' = ConfigError
            /\ orch' = "rejected"
       ELSE /\ raised' = raised
            /\ orch' = "start"
    /\ UNCHANGED <<inputs, earlier, history, parser, oi, tb, pc, queues, lister, reader, writer>>

\* The position a started process begins at.
FirstStep(k) ==
    IF k = Lister THEN "list"
    ELSE IF k = Writer THEN (IF N = 0 THEN "write" ELSE "collect")
    ELSE "get"

\* Lines 241-242: for proc in ps_list: proc.start()
StartNext ==
    /\ orch = "start"
    /\ oi < NP
    /\ pc' = [pc EXCEPT ![oi + 1] = FirstStep(oi + 1)]
    /\ oi' = oi + 1
    /\ orch' = orch
    /\ UNCHANGED <<inputs, earlier, history, parser, tb, raised, queues, lister, reader, writer>>

\* Lines 244-245: the first error_q.get(); None ends the loop, anything else
\* is raised as pycoQCError(tb).
Monitor ==
    /\ orch = "start"
    /\ oi = NP
    /\ error_q # <<>>
    /\ error_q' = Tail(error_q)
    /\ tb' = <<Head(error_q)>>
    /\ IF Head(error_q) = None
       THEN /\ orch' = "join"
            /\ raised' = raised
       ELSE /\ orch' = "terminate"
            /\ raised' = <<Head(error_q)>>
    /\ oi' = 0
    /\ UNCHANGED <<inputs, earlier, history, parser, pc, in_q, out_q, counter_q, lister, reader, writer>>

\* Lines 247-248: for proc in ps_list: proc.join()
JoinNext ==
    /\ orch = "join"
    /\ oi < NP
    /\ pc[oi + 1] = "exited"
    /\ oi' = oi + 1
    /\ orch' = IF oi + 1 = NP THEN "returned" ELSE orch
    /\ UNCHANGED <<inputs, earlier, history, parser, tb, raised, pc, queues, lister, reader, writer>>

\* TerminateNext with the loop ending one process early.
TerminateNextButLast ==
    /\ orch = "terminate"
    /\ oi < NP
    /\ pc' = [pc EXCEPT ![oi + 1] = IF @ = "exited" THEN @ ELSE "killed"]
    /\ oi' = oi + 1
    /\ orch' = IF oi + 1 >= NP - 1 THEN "raised" ELSE orch
    /\ UNCHANGED <<inputs, earlier, history, parser, tb, raised, queues, lister, reader, writer>>

\* Lines 251-255: for proc in ps_list: proc.terminate(); then raise E.
TerminateNext ==
    /\ orch = "terminate"
    /\ oi < NP
    /\ pc' = [pc EXCEPT ![oi + 1] = IF @ = "exited" THEN @ ELSE "killed"]
    /\ oi' = oi + 1
    /\ orch' = IF oi + 1 = NP THEN "raised" ELSE orch
    /\ UNCHANGED <<inputs, earlier, history, parser, tb, raised, queues, lister, reader, writer>>

Orchestrator == Construct \/ StartNext \/ Monitor \/ JoinNext \/ TerminateNext

\* What Ctrl-C raises in the main process.
KeyboardInterrupt == Error("__init__", "KeyboardInterrupt")

\* Interrupt with the exception raised to the caller at once.
InterruptNoTerminate ==
    /\ \/ orch = "start" /\ oi = NP
       \/ orch = "join"
    /\ orch' = "raised"
    /\ oi' = 0
    /\ raised' = <<KeyboardInterrupt>>
    /\ UNCHANGED <<inputs, earlier, history, parser, tb, pc, queues, lister, reader, writer>>

\* Lines 244-255: a KeyboardInterrupt while the orchestrator waits in
\* error_q.get() or in the loop of the join()s is caught by
\* except (BrokenPipeError, KeyboardInterrupt, pycoQCError) as E.
Interrupt ==
    /\ \/ orch = "start" /\ oi = NP
       \/ orch = "join"
    /\ orch' = "terminate"
    /\ oi' = 0
    /\ raised' = <<KeyboardInterrupt>>
    /\ UNCHANGED <<inputs, earlier, history, parser, tb, pc, queues, lister, reader, writer>>

\* -------------------------------------------------------------- _list_fastq
\* Lines 267-271: one turn of the for loop over recursive_file_gen.
ListBreaks == max_fastq # 0 /\ i + 1 = max_fastq

ListNext ==
    /\ pc[Lister] = "list"
    /\ i < K
    /\ i' = i + 1
    /\ IF ListBreaks
       THEN /\ pc' = [pc EXCEPT ![Lister] = "poison"]
            /\ UNCHANGED <<in_q, npush>>
       ELSE /\ NotFull(in_q)
            /\ in_q' = Append(in_q, Path(i + 1))
            /\ npush' = npush + 1
            /\ pc' = pc
    /\ UNCHANGED <<inputs, earlier, history, parser, orch, oi, tb, raised, out_q, error_q, counter_q, nsent,
                   reader, writer>>

\* NoFileFound with the comparison never true.
NoFileFoundNever == i < 0

\* Line 274: if i == 0
NoFileFound == i = 0

\* ListEnd without the finally clause when an exception was caught.
ListEndNoFinally ==
    /\ pc[Lister] = "list"
    /\ i = K
    /\ error_q' = IF walk_raises THEN Append(error_q, WalkError)
                  ELSE IF NoFileFound THEN Append(error_q, NoFastq)
                  ELSE error_q
    /\ pc' = [pc EXCEPT ![Lister] = IF walk_raises \/ NoFileFound THEN "exited" ELSE "poison"]
    /\ UNCHANGED <<inputs, earlier, history, parser, orch, oi, tb, raised, in_q, out_q, counter_q, lister,
                   reader, writer>>

\* Lines 267-281: the walk is over, by an exception of recursive_file_gen or
\* by its end; the exception, or no file found, is caught and put on error_q.
ListEnd ==
    /\ pc[Lister] = "list"
    /\ i = K
    /\ error_q' = IF walk_raises THEN Append(error_q, WalkError)
                  ELSE IF NoFileFound THEN Append(error_q, NoFastq)
                  ELSE error_q
    /\ pc' = [pc EXCEPT ![Lister] = "poison"]
    /\ UNCHANGED <<inputs, earlier, history, parser, orch, oi, tb, raised, in_q, out_q, counter_q, lister,
                   reader, writer>>

\* Pills with one None missing.
PillsOneShort == N - 1

\* Line 283: for i in range(self.threads)
Pills == N

\* Lines 282-284: one None per worker.
ListPoison ==
    /\ pc[Lister] = "poison"
    /\ nsent < Pills
    /\ NotFull(in_q)
    /\ in_q' = Append(in_q, None)
    /\ nsent' = nsent + 1
    /\ pc' = [pc EXCEPT ![Lister] = IF nsent + 1 = Pills THEN "exited" ELSE @]
    /\ UNCHANGED <<inputs, earlier, history, parser, orch, oi, tb, raised, out_q, error_q, counter_q, i, npush,
                   reader, writer>>

ListFastq == ListNext \/ ListEnd \/ ListPoison

\* -------------------------------------------------------------- _read_fastq
\* ReadGet with a get that leaves the path on in_q.
ReadGetPeek(w) ==
    /\ pc[Proc(w)] = "get"
    /\ in_q # <<>>
    /\ in_q' = IF Head(in_q) = None THEN Tail(in_q) ELSE in_q
    /\ IF Head(in_q) = None
       THEN /\ pc' = [pc EXCEPT ![Proc(w)] = "count"]
            /\ fastq_fn' = fastq_fn
            /\ popped' = popped
       ELSE /\ pc' = [pc EXCEPT ![Proc(w)] = "parse"]
            /\ fastq_fn' = [fastq_fn EXCEPT ![w] = Head(in_q).fn]
            /\ popped' = Append(popped, Head(in_q).fn)
    /\ UNCHANGED <<inputs, earlier, sent, parser, orch, oi, tb, raised, out_q, error_q, counter_q, lister,
                   value_dict, fed, worker_c, writer>>

\* Line 297: one in_q.get() of "for fastq_fn in iter(in_q.get, None)".
ReadGet(w) ==
    /\ pc[Proc(w)] = "get"
    /\ in_q # <<>>
    /\ in_q' = Tail(in_q)
    /\ IF Head(in_q) = None
       THEN /\ pc' = [pc EXCEPT ![Proc(w)] = "count"]
            /\ fastq_fn' = fastq_fn
            /\ popped' = popped
       ELSE /\ pc' = [pc EXCEPT ![Proc(w)] = "parse"]
            /\ fastq_fn' = [fastq_fn EXCEPT ![w] = Head(in_q).fn]
            /\ popped' = Append(popped, Head(in_q).fn)
    /\ UNCHANGED <<inputs, earlier, sent, parser, orch, oi, tb, raised, out_q, error_q, counter_q, lister,
                   value_dict, fed, worker_c, writer>>

\* ReadParse with the except clause inside the loop: the worker goes on
\* with the next file.
ReadParseGoesOn(w) ==
    /\ pc[Proc(w)] = "parse"
    /\ fed' = [fed EXCEPT ![w] = 0]
    /\ IF files[fastq_fn[w]].ok
       THEN /\ value_dict' = [value_dict EXCEPT ![w] = ReadsOf(fastq_fn[w])]
            /\ pc' = [pc EXCEPT ![Proc(w)] =
                        IF ReadsOf(fastq_fn[w]) = <<>> THEN "get" ELSE "put"]
            /\ error_q' = error_q
       ELSE /\ error_q' = Append(error_q, Error("_read_fastq", "iterate_fastq_parallel"))
            /\ pc' = [pc EXCEPT ![Proc(w)] = "get"]
            /\ value_dict' = value_dict
    /\ UNCHANGED <<inputs, earlier, history, parser, orch, oi, tb, raised, in_q, out_q, counter_q, lister,
                   fastq_fn, worker_c, writer>>

\* Lines 299-300 and 330-331: FastqParser.iterate_fastq_parallel(fastq_fn);
\* what it raises is caught and put on error_q.
\* ReadParse with a worker that dies of the exception: no traceback on
\* error_q, no None on out_q.
ReadParseDies(w) ==
    /\ pc[Proc(w)] = "parse"
    /\ fed' = [fed EXCEPT ![w] = 0]
    /\ IF files[fastq_fn[w]].ok
       THEN /\ value_dict' = [value_dict EXCEPT ![w] = ReadsOf(fastq_fn[w])]
            /\ pc' = [pc EXCEPT ![Proc(w)] =
                        IF ReadsOf(fastq_fn[w]) = <<>> THEN "get" ELSE "put"]
       ELSE /\ pc' = [pc EXCEPT ![Proc(w)] = "exited"]
            /\ value_dict' = value_dict
    /\ error_q' = error_q
    /\ UNCHANGED <<inputs, earlier, history, parser, orch, oi, tb, raised, in_q, out_q, counter_q, lister,
                   fastq_fn, worker_c, writer>>

ReadParse(w) ==
    /\ pc[Proc(w)] = "parse"
    /\ fed' = [fed EXCEPT ![w] = 0]
    /\ IF files[fastq_fn[w]].ok
       THEN /\ value_dict' = [value_dict EXCEPT ![w] = ReadsOf(fastq_fn[w])]
            /\ pc' = [pc EXCEPT ![Proc(w)] =
                        IF ReadsOf(fastq_fn[w]) = <<>> THEN "get" ELSE "put"]
            /\ error_q' = error_q
       ELSE /\ error_q' = Append(error_q, Error("_read_fastq", "iterate_fastq_parallel"))
            /\ pc' = [pc EXCEPT ![Proc(w)] = "pill"]
            /\ value_dict' = value_dict
    /\ UNCHANGED <<inputs, earlier, history, parser, orch, oi, tb, raised, in_q, out_q, counter_q, lister,
                   fastq_fn, worker_c, writer>>

\* Lines 309-314: the keys of d after "for field in self.fields", for a read
\* whose dict has the keys info and a d that has the keys keys.
RECURSIVE FieldsFound(_, _, _)
FieldsFound(flds, info, keys) ==
    IF flds = <<>> THEN keys
    ELSE FieldsFound(Tail(flds), info,
            IF Head(flds) \in info /\ Head(flds) \notin Range(keys)
            THEN Append(keys, Head(flds)) ELSE keys)

\* The keys of d for each fields argument tried, for a read of a file's
\* first turn of the loop: every read's dict has the keys EntryKeys.
FoundKeys == [flds \in FieldLists |-> FieldsFound(flds, EntryKeys, <<>>)]

\* WithPath with the path put whatever include_path is.
WithPathAlways(keys) ==
    IF "path" \notin Range(keys) THEN Append(keys, "path") ELSE keys

\* Lines 316-317: if self.include_path: d["path"] = ...
WithPath(keys) ==
    IF include_path /\ "path" \notin Range(keys) THEN Append(keys, "path") ELSE keys

\* Lines 308-317: the fields of a read that go into d.
Fetch(read) ==
    LET keys == WithPath(FoundKeys[fields])
    IN  [tag |-> "rec",
         keys |-> keys,
         id |-> IF "read_id" \in Range(keys) THEN read.id ELSE Missing,
         ts |-> IF "start_time" \in Range(keys) THEN read.ts ELSE Missing]

\* Lines 298 and 308-320: d is one object for all the reads of a file, and
\* out_q.put(d) leaves it to the feeder thread of the queue to pickle it,
\* while the loop goes on to overwrite it field by field, in the order of
\* fields, for the next read. Torn is d between two reads.
Before(a, b) == \E j, k \in 1..Len(fields) : fields[j] = a /\ fields[k] = b /\ j < k
Torn(old, new) ==
    IF Before("read_id", "start_time") THEN [id |-> new.id, ts |-> old.ts]
    ELSE [id |-> old.id, ts |-> new.ts]

\* d when it is pickled: v = 2j when it holds the j-th read of the file,
\* v = 2j + 1 when it is between the j-th and the next.
AsPickled(reads, v) ==
    IF v % 2 = 0 THEN reads[v \div 2] ELSE Torn(reads[v \div 2], reads[v \div 2 + 1])

\* When the feeder thread may pickle the record now put by worker w: not
\* before the put, not before it pickled the one before, and at the latest
\* with d at the last read of the file.
Pickled(w) ==
    {v \in 2 * (Len(ReadsOf(fastq_fn[w])) - Len(value_dict[w]) + 1)
                .. 2 * Len(ReadsOf(fastq_fn[w])) : v >= fed[w]}

\* Lines 309-314 and 319-324: what one read adds to c, its dict having the
\* keys EntryKeys: each field of fields is counted as found or as not
\* found, and the read as valid when d holds something.
\* TallyOfKeys with a field counted once however often fields names it.
TallyOfKeysOnce(flds, field, found) ==
    IF (field \in EntryKeys) = found THEN 1 ELSE 0

TallyOfKeys(flds, field, found) ==
    Cardinality({k \in 1..Len(flds) :
        flds[k] = field /\ ((field \in EntryKeys) = found)})
ReadTally ==
    [flds \in FieldLists |->
        [fields_found |-> [field \in Range(flds) |-> TallyOfKeys(flds, field, TRUE)],
         fields_not_found |-> [field \in Range(flds) |-> TallyOfKeys(flds, field, FALSE)]]]
\* OneRead with every read counted as valid, d empty or not.
OneReadAllValid ==
    [fields_found |-> ReadTally[fields].fields_found,
     fields_not_found |-> ReadTally[fields].fields_not_found,
     valid |-> 1,
     invalid |-> 0]

OneRead ==
    [fields_found |-> ReadTally[fields].fields_found,
     fields_not_found |-> ReadTally[fields].fields_not_found,
     valid |-> IF WithPath(FoundKeys[fields]) # <<>> THEN 1 ELSE 0,
     invalid |-> IF WithPath(FoundKeys[fields]) # <<>> THEN 0 ELSE 1]

\* ReadPut with d[field] = read_info_dict[field] for every field, without
\* the test of line 310: a field that is no key of the read's dict raises.
ReadPutAnyField(w) ==
    /\ pc[Proc(w)] = "put"
    /\ \E field \in Range(fields) : field \notin EntryKeys
    /\ error_q' = Append(error_q, Error("_read_fastq", "KeyError"))
    /\ pc' = [pc EXCEPT ![Proc(w)] = "pill"]
    /\ UNCHANGED <<inputs, earlier, history, parser, orch, oi, tb, raised, in_q, out_q, counter_q, lister,
                   reader, writer>>

\* Lines 308-324: one turn of "for read_id, read_info_dict in value_dict.items()".
ReadPut(w) ==
    /\ pc[Proc(w)] = "put"
    /\ IF Fetch(Head(value_dict[w])).keys # <<>>
       THEN /\ NotFull(out_q)
            /\ \E v \in Pickled(w) :
                    /\ out_q' = Append(out_q, Fetch(AsPickled(ReadsOf(fastq_fn[w]), v)))
                    /\ fed' = [fed EXCEPT ![w] = IF Tail(value_dict[w]) = <<>> THEN 0 ELSE v]
            /\ sent' = Append(sent, Fetch(Head(value_dict[w])))
       ELSE /\ out_q' = out_q
            /\ fed' = fed
            /\ sent' = sent
    /\ worker_c' = [worker_c EXCEPT ![w] = Plus(@, OneRead)]
    /\ value_dict' = [value_dict EXCEPT ![w] = Tail(@)]
    /\ pc' = [pc EXCEPT ![Proc(w)] = IF Tail(value_dict[w]) = <<>> THEN "get" ELSE @]
    /\ UNCHANGED <<inputs, earlier, popped, parser, orch, oi, tb, raised, in_q, error_q, counter_q, lister,
                   fastq_fn, writer>>

\* Line 327: counter_q.put(c)
ReadCount(w) ==
    /\ pc[Proc(w)] = "count"
    /\ counter_q' = Append(counter_q, [by |-> w, c |-> worker_c[w]])
    /\ pc' = [pc EXCEPT ![Proc(w)] = "pill"]
    /\ UNCHANGED <<inputs, earlier, history, parser, orch, oi, tb, raised, in_q, out_q, error_q, lister,
                   reader, writer>>

\* ReadPill with the worker back at in_q.get after its None.
ReadPillGoesOn(w) ==
    /\ pc[Proc(w)] = "pill"
    /\ NotFull(out_q)
    /\ out_q' = Append(out_q, None)
    /\ pc' = [pc EXCEPT ![Proc(w)] = "get"]
    /\ UNCHANGED <<inputs, earlier, history, parser, orch, oi, tb, raised, in_q, error_q, counter_q, lister,
                   reader, writer>>

\* Lines 332-333: finally: out_q.put(None)
ReadPill(w) ==
    /\ pc[Proc(w)] = "pill"
    /\ NotFull(out_q)
    /\ out_q' = Append(out_q, None)
    /\ pc' = [pc EXCEPT ![Proc(w)] = "exited"]
    /\ UNCHANGED <<inputs, earlier, history, parser, orch, oi, tb, raised, in_q, error_q, counter_q, lister,
                   reader, writer>>

ReadFastq(w) == ReadGet(w) \/ ReadParse(w) \/ ReadPut(w) \/ ReadCount(w) \/ ReadPill(w)

\* ------------------------------------------------------- _write_seq_summary
\* Line 346: for _ in range(self.threads)
SourcesOneShort == N - 1

Sources == N

\* Lines 346-349: one out_q.get(); a None ends one turn of the outer loop.
WriteGet ==
    /\ pc[Writer] = "collect"
    /\ out_q # <<>>
    /\ out_q' = Tail(out_q)
    /\ IF Head(out_q) = None
       THEN /\ nsrc' = nsrc + 1
            /\ l' = l
            /\ pc' = [pc EXCEPT ![Writer] = IF nsrc + 1 = Sources THEN "write" ELSE @]
       ELSE /\ l' = Append(l, Head(out_q))
            /\ nsrc' = nsrc
            /\ pc' = pc
    /\ UNCHANGED <<inputs, earlier, history, parser, orch, oi, tb, raised, in_q, error_q, counter_q, lister,
                   reader, ncnt, counts, csv>>

\* Line 353: the columns of pd.DataFrame(l): the keys of the records, each
\* at the place of its first appearance.
RECURSIVE Columns(_)
Columns(recs) ==
    IF recs = <<>> THEN <<>>
    ELSE CHOOSE columns \in
            {before \o SelectSeq(recs[Len(recs)].keys, LAMBDA key : key \notin Range(before)) :
                before \in {Columns(SubSeq(recs, 1, Len(recs) - 1))}} : TRUE

\* Lines 353-356: df = pd.DataFrame(l) has a start_time column when some
\* record of l has the key; df['start_time'] raises KeyError otherwise.
HasStartTime(recs) == \E k \in 1..Len(recs) : "start_time" \in Range(recs[k].keys)

\* TimeZero taken from the first record instead of the minimum.
TimeZeroFirst(recs) == recs[1].ts

\* Line 359: time_zero = df['start_time'].min(), which skips NaT.
SetMin(S) == CHOOSE x \in S : \A y \in S : x <= y
TimeZero(recs) ==
    LET valid == {recs[k].ts : k \in 1..Len(recs)} \ {NaT}
    IN  IF valid = {} THEN NaT ELSE SetMin(valid)

\* Lines 360-365: start_time - time_zero in whole seconds, NaN where NaT.
Elapsed(ts, t0) == IF ts = NaT \/ t0 = NaT THEN NaN ELSE ts - t0

\* Rows with df.sort_values("start_time") before to_csv (NaN last).
RECURSIVE InsertRow(_, _)
InsertRow(row, sorted) ==
    IF sorted = <<>> THEN <<row>>
    ELSE IF row.start_time # NaN
            /\ (Head(sorted).start_time = NaN \/ row.start_time < Head(sorted).start_time)
         THEN <<row>> \o sorted
         ELSE <<Head(sorted)>> \o InsertRow(row, Tail(sorted))
RECURSIVE SortRows(_)
SortRows(rows) ==
    IF rows = <<>> THEN <<>>
    ELSE InsertRow(rows[Len(rows)], SortRows(SubSeq(rows, 1, Len(rows) - 1)))
RowsSorted(recs) ==
    SortRows([k \in 1..Len(recs) |->
        [read_id |-> recs[k].id, start_time |-> Elapsed(recs[k].ts, TimeZero(recs))]])

\* Lines 353-368: the rows of the table, in the order of l.
Rows(recs) ==
    [k \in 1..Len(recs) |->
        [read_id |-> recs[k].id, start_time |-> Elapsed(recs[k].ts, TimeZero(recs))]]

\* WriteTable with the final None put before the traceback.
WriteTableNoneFirst ==
    /\ pc[Writer] = "write"
    /\ IF HasStartTime(l)
       THEN /\ csv' = [written |-> TRUE, header |-> Columns(l), rows |-> Rows(l)]
            /\ pc' = [pc EXCEPT ![Writer] = "summarize"]
            /\ error_q' = error_q
       ELSE /\ error_q' = error_q \o <<None, Error("_write_seq_summary", "KeyError: 'start_time'")>>
            /\ pc' = [pc EXCEPT ![Writer] = "exited"]
            /\ csv' = csv
    /\ UNCHANGED <<inputs, earlier, history, parser, orch, oi, tb, raised, in_q, out_q, counter_q, lister,
                   reader, l, nsrc, ncnt, counts>>

\* Lines 351-368 and 388-389: the table is built and written with to_csv;
\* the KeyError is caught and put on error_q.
\* WriteTable with the KeyError swallowed: no traceback is put on error_q.
WriteTableSilent ==
    /\ pc[Writer] = "write"
    /\ IF HasStartTime(l)
       THEN /\ csv' = [written |-> TRUE, header |-> Columns(l), rows |-> Rows(l)]
            /\ pc' = [pc EXCEPT ![Writer] = "summarize"]
       ELSE /\ pc' = [pc EXCEPT ![Writer] = "end"]
            /\ csv' = csv
    /\ error_q' = error_q
    /\ UNCHANGED <<inputs, earlier, history, parser, orch, oi, tb, raised, in_q, out_q, counter_q, lister,
                   reader, l, nsrc, ncnt, counts>>

WriteTable ==
    /\ pc[Writer] = "write"
    /\ IF HasStartTime(l)
       THEN /\ csv' = [written |-> TRUE, header |-> Columns(l), rows |-> Rows(l)]
            /\ pc' = [pc EXCEPT ![Writer] = "summarize"]
            /\ error_q' = error_q
       ELSE /\ error_q' = Append(error_q, Error("_write_seq_summary", "KeyError: 'start_time'"))
            /\ pc' = [pc EXCEPT ![Writer] = "end"]
            /\ csv' = csv
    /\ UNCHANGED <<inputs, earlier, history, parser, orch, oi, tb, raised, in_q, out_q, counter_q, lister,
                   reader, l, nsrc, ncnt, counts>>

\* Drains with one counter_q.get() missing.
DrainsOneShort == N - 1

\* Line 373: for _ in range(self.threads)
Drains == N

\* WriteCount with c[k][k2] = v2 in place of c[k][k2] += v2.
WriteCountAssigns ==
    /\ pc[Writer] = "summarize"
    /\ counter_q # <<>>
    /\ counter_q' = Tail(counter_q)
    /\ ncnt' = ncnt + 1
    /\ counts' = Head(counter_q).c
    /\ pc' = [pc EXCEPT ![Writer] = IF ncnt + 1 = Drains THEN "end" ELSE @]
    /\ UNCHANGED <<inputs, earlier, history, parser, orch, oi, tb, raised, in_q, out_q, error_q, lister,
                   reader, l, nsrc, csv>>

\* Lines 370-381: one counter_q.get() of "for _ in range(self.threads)" and
\* the sums of what it returned into c.
WriteCount ==
    /\ pc[Writer] = "summarize"
    /\ counter_q # <<>>
    /\ counter_q' = Tail(counter_q)
    /\ ncnt' = ncnt + 1
    /\ counts' = Plus(counts, Head(counter_q).c)
    /\ pc' = [pc EXCEPT ![Writer] = IF ncnt + 1 = Drains THEN "end" ELSE @]
    /\ UNCHANGED <<inputs, earlier, history, parser, orch, oi, tb, raised, in_q, out_q, error_q, lister,
                   reader, l, nsrc, csv>>

\* Lines 390-391: finally: error_q.put(None)
WriteEnd ==
    /\ pc[Writer] = "end"
    /\ error_q' = Append(error_q, None)
    /\ pc' = [pc EXCEPT ![Writer] = "exited"]
    /\ UNCHANGED <<inputs, earlier, history, parser, orch, oi, tb, raised, in_q, out_q, counter_q, lister,
                   reader, writer>>

WriteSeqSummary == WriteGet \/ WriteTable \/ WriteCount \/ WriteEnd

\* -------------------------------------------------------------- FastqParser
\* A str is a sequence of characters.  A name or a value of the header that
\* the code never takes apart is written as one character.
Whitespace == {" ", "\n"}
SeqChars == {"A", "C", "G", "g"}
QualChars == {"!", "I"}
ReadIds == {<<"r">>, <<"r", "2">>}

\* The header of Guppy (lines 59-69): the keys the code looks up, each
\* with a value.
HeaderKeys == <<"runid", "start_time", "ch", "barcode">>
HeaderValue(key) ==
    CASE key = "runid" -> "acfd15dc"
      [] key = "start_time" -> "2022-06-27T23:14:28Z"
      [] key = "ch" -> "207"
      [] key = "barcode" -> "barcode17"

RECURSIVE Pairs(_, _)
Pairs(keys, present) ==
    IF keys = <<>> THEN <<>>
    ELSE (IF Head(keys) \in present
          THEN <<" ", Head(keys), "=", HeaderValue(Head(keys))>> ELSE <<>>)
         \o Pairs(Tail(keys), present)

HeaderLine(id, present) == <<"@">> \o id \o Pairs(HeaderKeys, present) \o <<"\n">>

\* A header whose start_time is no time that dateutil knows.
BadTimeLine(id) == <<"@">> \o id \o <<" ", "start_time", "=", "never", "\n">>

\* A header with a key that is none of HeaderKeys, before one of them.
OtherKeyLine(id) ==
    <<"@">> \o id \o <<" ", "read", "=", "2743", " ", "ch", "=", "207", "\n">>

\* The read groups of four lines a file may hold, as the file gives them.
EntrySet ==
    {<<header, seq \o <<"\n">>, <<"+", "\n">>, qual \o <<"\n">>>> :
        header \in {HeaderLine(id, present) :
                        id \in ReadIds, present \in SUBSET Range(HeaderKeys)}
                   \cup {BadTimeLine(id) : id \in ReadIds}
                   \cup {OtherKeyLine(id) : id \in ReadIds},
        seq \in SeqsUpTo(SeqChars, MaxSeq), qual \in SeqsUpTo(QualChars, MaxSeq)}

\* Line 50: line.rstrip()
RECURSIVE RStrip(_)
RStrip(line) ==
    IF line # <<>> /\ line[Len(line)] \in Whitespace
    THEN RStrip(SubSeq(line, 1, Len(line) - 1))
    ELSE line

\* Line 75: header.split(), the runs of characters that are not whitespace.
RECURSIVE RunLen(_)
RunLen(line) ==
    IF line = <<>> \/ Head(line) \in Whitespace THEN 0 ELSE 1 + RunLen(Tail(line))
RECURSIVE Split(_)
Split(line) ==
    IF line = <<>> THEN <<>>
    ELSE IF Head(line) \in Whitespace THEN Split(Tail(line))
    ELSE <<SubSeq(line, 1, RunLen(line))>>
            \o Split(SubSeq(line, RunLen(line) + 1, Len(line)))

\* Line 78: i.split('='), the parts between the separators.
RECURSIVE UntilSep(_, _)
UntilSep(token, sep) ==
    IF token = <<>> \/ Head(token) = sep THEN 0 ELSE 1 + UntilSep(Tail(token), sep)
RECURSIVE SplitOn(_, _)
SplitOn(token, sep) ==
    IF UntilSep(token, sep) = Len(token) THEN <<token>>
    ELSE <<SubSeq(token, 1, UntilSep(token, sep))>>
            \o SplitOn(SubSeq(token, UntilSep(token, sep) + 2, Len(token)), sep)

\* Lines 76-79: read_dict, as the list of the (key, value) assignments.
ReadDict(items) == [k \in 1..(Len(items) - 1) |-> SplitOn(items[k + 1], "=")]
\* Line 78: key, value = ... raises ValueError unless there are two parts.
BadToken(items) == \E k \in 2..Len(items) : Len(SplitOn(items[k], "=")) # 2

\* read_dict[key], '' on KeyError (lines 83-98): the last assignment wins.
HasKey(read_dict, key) == \E k \in 1..Len(read_dict) : read_dict[k][1] = <<key>>
Lookup(read_dict, key) ==
    IF HasKey(read_dict, key)
    THEN LET last == CHOOSE k \in 1..Len(read_dict) :
                        /\ read_dict[k][1] = <<key>>
                        /\ \A j \in (k + 1)..Len(read_dict) : read_dict[j][1] # <<key>>
         IN  read_dict[last][2]
    ELSE <<>>

\* Line 88: dateutil's parse of the start_time value; seconds on the scale
\* of the timestamps 1..MaxTs.
Parsable(value) == value = <<"2022-06-27T23:14:28Z">>
ParseTime(value) == CASE value = <<"2022-06-27T23:14:28Z">> -> 1

\* ReadId with the leading "@" kept.
ReadIdWhole(items) == items[1]

\* Line 101: read_id = items[0][1:]
ReadId(items) == Tail(items[1])

\* ord() of the quality characters.
Ord(letter) ==
    CASE letter = "!" -> 33
      [] letter = "I" -> 73

\* Phred with the offset of the Illumina 1.3 encoding.
PhredIllumina(letter) == Ord(letter) - 64

\* Line 105: ord(letter) - 33
Phred(letter) == Ord(letter) - PhredOffset

RECURSIVE Sum(_)
Sum(list) == IF list = <<>> THEN 0 ELSE Head(list) + Sum(Tail(list))

\* Line 106: functions.compute_average_quality(phred_list, length), the
\* quotient of the scores' sum by length.
compute_average_quality(phred_list, length) == [num |-> Sum(phred_list), den |-> length]

\* round(num / den, 2) in hundredths, a tie going to the even neighbour.
\* (A tie needs den to be a multiple of 8.)
Round2(num, den) ==
    LET floor == (100 * num) \div den
        rest == (100 * num) % den
    IN  IF 2 * rest < den THEN floor
        ELSE IF 2 * rest > den THEN floor + 1
        ELSE IF floor % 2 = 0 THEN floor ELSE floor + 1

Count(seq, ch) == Cardinality({k \in 1..Len(seq) : seq[k] = ch})

\* GCCount with the lower-case letters counted too.
GCCountAnyCase(seq) ==
    Count(seq, "G") + Count(seq, "C") + Count(seq, "g") + Count(seq, "c")

\* Lines 109-110: seq.count('G') + seq.count('C')
GCCount(seq) == Count(seq, "G") + Count(seq, "C")

\* Lines 72-111: the exception single_fastq_entry_to_dict raises for a group
\* of four stripped lines, "" when it raises none.
Raises(fastq_entry) ==
    LET items == Split(fastq_entry[1])
        read_dict == ReadDict(items)
    IN  IF BadToken(items) THEN "ValueError"
        ELSE IF HasKey(read_dict, "start_time") /\ ~Parsable(Lookup(read_dict, "start_time"))
             THEN "ParserError"
        ELSE IF items = <<>> THEN "IndexError"
        ELSE IF Len(fastq_entry[2]) = 0 THEN "ZeroDivisionError"
        ELSE ""

\* Lines 72-133: entry_dict of single_fastq_entry_to_dict, as the list of its
\* one (key, value) pair.  mean_qscore_template and gc_percent are in
\* hundredths.
EntryDict(fastq_entry, flg) ==
    LET seq == fastq_entry[2]
        qual == fastq_entry[4]
        items == Split(fastq_entry[1])
        read_dict == ReadDict(items)
        length == Len(seq)
        phred_list == [k \in 1..Len(qual) |-> Phred(qual[k])]
        average == compute_average_quality(phred_list, length)
    IN  <<[key |-> ReadId(items),
           val |-> [read_id |-> ReadId(items),
                    run_id |-> Lookup(read_dict, "runid"),
                    channel |-> Lookup(read_dict, "ch"),
                    barcode_arrangement |-> Lookup(read_dict, "barcode"),
                    sequence_length_template |-> length,
                    mean_qscore_template |-> Round2(average.num, average.den),
                    gc_percent |-> Round2(GCCount(seq) * 100, length),
                    start_time |-> IF HasKey(read_dict, "start_time")
                                   THEN ParseTime(Lookup(read_dict, "start_time"))
                                   ELSE NaT,
                    passes_filtering |-> IF flg = "pass" THEN "TRUE" ELSE "FALSE"]]>>

\* Lines 49-52: the four lines of the group, stripped.
ReadEntry ==
    /\ ppos = "chunk"
    /\ lines' = [k \in 1..Len(chunk) |-> RStrip(chunk[k])]
    /\ ppos' = "entry"
    /\ UNCHANGED <<inputs, earlier, history, orch, oi, tb, raised, pc, queues, lister, reader, writer,
                   chunk, flag, entry_dict, exc, d, c, pool>>

\* Lines 52-53: single_fastq_entry_to_dict(lines, fastq_name, flag) returns
\* or raises.
SingleFastqEntryToDict ==
    /\ ppos = "entry"
    /\ IF Raises(lines) = ""
       THEN /\ entry_dict' = EntryDict(lines, flag)
            /\ exc' = exc
            /\ ppos' = "parsed"
       ELSE /\ exc' = Raises(lines)
            /\ entry_dict' = entry_dict
            /\ ppos' = "raised"
    /\ UNCHANGED <<inputs, earlier, history, orch, oi, tb, raised, pc, queues, lister, reader, writer,
                   chunk, flag, lines, d, c, pool>>

\* How often field is in fields and is (found) or is not a key of info.
Tally(field, info, found) ==
    Cardinality({k \in 1..Len(fields) :
        fields[k] = field /\ ((field \in DOMAIN info) = found)})

\* Lines 292-324: c and d after the turn of the loop for the read of
\* entry_dict, the first read of its file.
FetchFields ==
    /\ ppos = "parsed"
    /\ LET read_info_dict == entry_dict[1].val
           keys == WithPath(FieldsFound(fields, DOMAIN read_info_dict, <<>>))
       IN  /\ d' = [keys |-> keys,
                    val |-> [key \in Range(keys) \ {"path"} |-> read_info_dict[key]]]
           /\ c' = [fields_found |->
                        [field \in Range(fields) |-> Tally(field, read_info_dict, TRUE)],
                    fields_not_found |->
                        [field \in Range(fields) |-> Tally(field, read_info_dict, FALSE)],
                    valid |-> IF keys # <<>> THEN 1 ELSE 0,
                    invalid |-> IF keys # <<>> THEN 0 ELSE 1]
    /\ ppos' = "done"
    /\ UNCHANGED <<inputs, earlier, history, orch, oi, tb, raised, pc, queues, lister, reader, writer,
                   chunk, flag, lines, entry_dict, exc, pool>>

\* Lines 329-331: the exception leaves iterate_fastq_parallel and is put on
\* error_q by _read_fastq.
ForwardError ==
    /\ ppos = "raised"
    /\ error_q' = Append(error_q, Error("_read_fastq", exc))
    /\ ppos' = "failed"
    /\ UNCHANGED <<inputs, earlier, history, orch, oi, tb, raised, pc, in_q, out_q, counter_q, lister,
                   reader, writer, chunk, flag, lines, entry_dict, exc, d, c, pool>>

\* ------------------------------------------- FastqParser.iterate_fastq_parallel
\* ChunkLines with a size that is no multiple of 4.
ChunkLinesOdd == GroupLines * ChunkGroups + 2

\* Line 150: make_chunks(f, 4000), a whole number of read groups.
ChunkLines == GroupLines * ChunkGroups

\* The files tried: up to MaxGroups read groups of three read_ids and two
\* sequences, and up to three lines of one more group.
Group(id, seq) ==
    <<HeaderLine(id, {}), seq \o <<"\n">>, <<"+", "\n">>, <<"I", "\n">>>>
GroupSet == {Group(id, seq) : id \in ReadIds \cup {<<"r", "3">>}, seq \in {<<"A">>, <<"G">>}}
RECURSIVE Flatten(_)
Flatten(groups) == IF groups = <<>> THEN <<>> ELSE Head(groups) \o Flatten(Tail(groups))
FastqFiles ==
    {Flatten(groups) \o SubSeq(Group(<<"r">>, <<"A">>), 1, rest) :
        groups \in SeqsUpTo(GroupSet, MaxGroups), rest \in 0..(GroupLines - 1)}

\* Lines 38-43: make_chunks: lists of size lines, the last one shorter;
\* an empty list ends it.
RECURSIVE MakeChunks(_, _)
MakeChunks(file_handle, size) ==
    IF file_handle = <<>> THEN <<>>
    ELSE IF Len(file_handle) <= size THEN <<file_handle>>
    ELSE <<SubSeq(file_handle, 1, size)>>
            \o MakeChunks(SubSeq(file_handle, size + 1, Len(file_handle)), size)

\* UpdateOne that leaves the value of a key the dict has.
UpdateOneKeepsFirst(dict, item) ==
    IF \E k \in 1..Len(dict) : dict[k].key = item.key THEN dict
    ELSE Append(dict, item)

\* dict.update with one item: the value of a key the dict has is replaced
\* where it is, a new key goes to the end.
UpdateOne(dict, item) ==
    IF \E k \in 1..Len(dict) : dict[k].key = item.key
    THEN [k \in 1..Len(dict) |-> IF dict[k].key = item.key THEN item ELSE dict[k]]
    ELSE Append(dict, item)

\* Lines 53 and 158: dict.update(other), item by item.
RECURSIVE Update(_, _)
Update(dict, other) ==
    IF other = <<>> THEN dict ELSE Update(UpdateOne(dict, Head(other)), Tail(other))

\* Lines 49-51: the lines of a group, each one stripped.
Stripped(group) == [k \in 1..Len(group) |-> RStrip(group[k])]

\* Lines 46-55: read_entry: what it raises, "" when nothing, and the
\* my_dict it returns; the lines after the last whole group are left in
\* lines and forgotten.
RECURSIVE read_entry(_, _, _)
read_entry(entry, flg, my_dict) ==
    IF Len(entry) < GroupLines THEN [exc |-> "", dict |-> my_dict]
    ELSE IF Raises(Stripped(SubSeq(entry, 1, GroupLines))) # ""
    THEN [exc |-> Raises(Stripped(SubSeq(entry, 1, GroupLines))), dict |-> <<>>]
    ELSE read_entry(SubSeq(entry, GroupLines + 1, Len(entry)), flg,
                    Update(my_dict, EntryDict(Stripped(SubSeq(entry, 1, GroupLines)), flg)))

\* Lines 148-150: the pool is made and one job per chunk is submitted.
ApplyAsync ==
    /\ ipos = "open"
    /\ jobs' = [k \in 1..Len(MakeChunks(input_fastq, ChunkLines)) |->
                    [chunk |-> MakeChunks(input_fastq, ChunkLines)[k], st |-> "queued",
                     result |-> [exc |-> "", dict |-> <<>>]]]
    /\ ipos' = "pool"
    /\ UNCHANGED <<inputs, earlier, history, orch, oi, tb, raised, pc, queues, lister, reader, writer,
                   chunk, flag, lines, entry_dict, exc, d, c, ppos, input_fastq, results,
                   fastq_dict>>

\* mp.Pool(int(cpu)): a free process of the pool takes the job submitted
\* first among those not taken; cpu is self.threads (line 299).
PoolTake(j) ==
    /\ ipos = "pool"
    /\ jobs[j].st = "queued"
    /\ \A k \in 1..(j - 1) : jobs[k].st # "queued"
    /\ Cardinality({k \in 1..Len(jobs) : jobs[k].st = "running"}) < N
    /\ jobs' = [jobs EXCEPT ![j].st = "running"]
    /\ UNCHANGED <<inputs, earlier, history, orch, oi, tb, raised, pc, queues, lister, reader, writer,
                   chunk, flag, lines, entry_dict, exc, d, c, ppos, input_fastq, results,
                   fastq_dict, ipos>>

\* The process of the pool returns from read_entry(chunk, fastq_name, flag).
PoolDone(j) ==
    /\ ipos = "pool"
    /\ jobs[j].st = "running"
    /\ jobs' = [jobs EXCEPT ![j].st = "done",
                            ![j].result = read_entry(jobs[j].chunk, flag, <<>>)]
    /\ UNCHANGED <<inputs, earlier, history, orch, oi, tb, raised, pc, queues, lister, reader, writer,
                   chunk, flag, lines, entry_dict, exc, d, c, ppos, input_fastq, results,
                   fastq_dict, ipos>>

\* Line 151: results = [j.get() for j in jobs]: the next job's result, once
\* it is there; get re-raises what the job raised.
GetResult ==
    /\ ipos = "pool"
    /\ Len(results) < Len(jobs)
    /\ jobs[Len(results) + 1].st = "done"
    /\ IF jobs[Len(results) + 1].result.exc = ""
       THEN /\ results' = Append(results, jobs[Len(results) + 1].result.dict)
            /\ exc' = exc
            /\ ipos' = ipos
       ELSE /\ results' = results
            /\ exc' = jobs[Len(results) + 1].result.exc
            /\ ipos' = "raised"
    /\ UNCHANGED <<inputs, earlier, history, orch, oi, tb, raised, pc, queues, lister, reader, writer,
                   chunk, flag, lines, entry_dict, d, c, ppos, input_fastq, jobs, fastq_dict>>

\* Lines 157-158: for d in results: fastq_dict.update(d)
RECURSIVE Merged(_, _)
Merged(dict, dicts) ==
    IF dicts = <<>> THEN dict ELSE Merged(Update(dict, Head(dicts)), Tail(dicts))

\* Lines 152-160: every result is there; the pool is closed, the results
\* are merged in the order of the jobs, fastq_dict is returned.
Merge ==
    /\ ipos = "pool"
    /\ Len(results) = Len(jobs)
    /\ fastq_dict' = Merged(<<>>, results)
    /\ ipos' = "returned"
    /\ UNCHANGED <<inputs, earlier, history, orch, oi, tb, raised, pc, queues, lister, reader, writer,
                   chunk, flag, lines, entry_dict, exc, d, c, ppos, input_fastq, jobs, results>>

\* -------------------------------------------------------------------- Spec
Next ==
    \/ Construct
    \/ StartNext
    \/ Monitor
    \/ JoinNext
    \/ TerminateNext
    \/ ListNext
    \/ ListEnd
    \/ ListPoison
    \/ \E w \in Workers : ReadGet(w)
    \/ \E w \in Workers : ReadParse(w)
    \/ \E w \in Workers : ReadPut(w)
    \/ \E w \in Workers : ReadCount(w)
    \/ \E w \in Workers : ReadPill(w)
    \/ WriteGet
    \/ WriteTable
    \/ WriteCount
    \/ WriteEnd

Spec == Init /\ [][Next]_vars

\* The processes are operating-system processes: each one that can take a
\* step eventually does.
Fairness ==
    /\ WF_vars(Orchestrator)
    /\ WF_vars(ListFastq)
    /\ \A w \in 1..(MaxThreads - Reserved) : WF_vars(w \in Workers /\ ReadFastq(w))
    /\ WF_vars(WriteSeqSummary)

FairSpec == Spec /\ Fairness

\* Two runs over the same directory, one after the other: the first with
\* threads = 3 (one worker), the second, once the first constructor has
\* returned or raised, with threads = 6 (four workers) and a fresh
\* seq_summary_fn.
\* The files are unreadable or hold one read; max_fastq is off.
InitTwoRuns ==
    /\ Init
    /\ fastq_dir_ok /\ out_dir_ok
    /\ threads = 3
    /\ max_fastq = 0
    /\ \A f \in 1..K : files[f].ok => files[f].ts = <<1>>

RunAgain ==
    /\ earlier = <<>>
    /\ orch \in {"returned", "raised"}
    /\ earlier' = <<[table |-> csv, success |-> orch = "returned"]>>
    /\ threads' = 6
    /\ orch' = "init"
    /\ oi' = 0
    /\ tb' = <<>>
    /\ raised' = <<>>
    /\ pc' = [k \in 1..6 |-> "new"]
    /\ in_q' = <<>> /\ out_q' = <<>> /\ error_q' = <<>> /\ counter_q' = <<>>
    /\ i' = 0 /\ npush' = 0 /\ nsent' = 0
    /\ fastq_fn' = [w \in 1..4 |-> 0]
    /\ value_dict' = [w \in 1..4 |-> <<>>]
    /\ fed' = [w \in 1..4 |-> 0]
    /\ worker_c' = [w \in 1..4 |-> NoCounts]
    /\ l' = <<>> /\ nsrc' = 0 /\ ncnt' = 0
    /\ counts' = NoCounts
    /\ csv' = NoFile
    /\ popped' = <<>> /\ sent' = <<>>
    /\ UNCHANGED <<fastq_dir_ok, out_dir_ok, max_fastq, files, walk_raises, fields,
                   include_path, parser>>

NextTwoRuns == Next \/ RunAgain

TwoRuns == InitTwoRuns /\ [][NextTwoRuns]_vars

\* Runs over the fields and include_path arguments: threads = 3, max_fastq
\* off, a walk that raises nothing, files that are unreadable or hold one or
\* two reads.
InitFields ==
    /\ fastq_dir_ok = TRUE /\ out_dir_ok = TRUE
    /\ threads = MinThreads
    /\ max_fastq = 0
    /\ files \in SeqsUpTo({f \in FileSet : f.ok => f.ts \in {<<1>>, <<2, 1>>}}, MaxFiles)
    /\ walk_raises = FALSE
    /\ fields \in FieldLists
    /\ include_path \in BOOLEAN
    /\ Idle
    /\ Start

FieldsSpec == InitFields /\ [][Next]_vars

\* The same runs, every process that can take a step taking one in the end.
FairFieldsSpec == FieldsSpec /\ Fairness

\* Runs over a walk that may raise after its last file: any threads and
\* max_fastq, files that are unreadable or hold at most one read.
InitWalk ==
    /\ fastq_dir_ok = TRUE /\ out_dir_ok = TRUE
    /\ threads \in MinThreads..MaxThreads
    /\ max_fastq \in 0..MaxCap
    /\ files \in SeqsUpTo({f \in FileSet : Len(f.ts) <= 1}, MaxFiles)
    /\ walk_raises \in BOOLEAN
    /\ fields = DefaultFields
    /\ include_path = FALSE
    /\ Idle
    /\ Start

WalkSpec == InitWalk /\ [][Next]_vars

\* The same runs, every process that can take a step taking one in the end.
FairWalkSpec == WalkSpec /\ Fairness

\* Runs the user may interrupt: files that are unreadable or hold at most
\* one read, no max_fastq.
InitInterrupt ==
    /\ fastq_dir_ok = TRUE /\ out_dir_ok = TRUE
    /\ threads \in MinThreads..MaxThreads
    /\ max_fastq = 0
    /\ files \in SeqsUpTo({f \in FileSet : Len(f.ts) <= 1}, MaxFiles)
    /\ walk_raises = FALSE
    /\ fields = DefaultFields
    /\ include_path = FALSE
    /\ Idle
    /\ Start

NextInterrupt == Next \/ Interrupt

InterruptSpec == InitInterrupt /\ [][NextInterrupt]_vars

\* FastqParser and the loop body of _read_fastq over one read group, with
\* the default fields.
InitExtract ==
    /\ fastq_dir_ok = TRUE /\ out_dir_ok = TRUE
    /\ threads = MinThreads
    /\ max_fastq = 0
    /\ files = <<>>
    /\ walk_raises = FALSE
    /\ fields = DefaultFields
    /\ include_path = FALSE
    /\ Start
    /\ chunk \in EntrySet
    /\ flag \in {"pass", "fail"}
    /\ lines = <<>> /\ entry_dict = <<>> /\ exc = "" /\ d = <<>> /\ c = <<>>
    /\ ppos = "chunk"
    /\ PoolIdle

NextExtract ==
    \/ ReadEntry
    \/ SingleFastqEntryToDict
    \/ FetchFields
    \/ ForwardError

ExtractSpec == InitExtract /\ [][NextExtract]_vars

\* FastqParser.iterate_fastq_parallel over one file, with a pool of
\* self.threads processes.
InitChunks ==
    /\ fastq_dir_ok = TRUE /\ out_dir_ok = TRUE
    /\ threads \in MinThreads..MaxThreads
    /\ max_fastq = 0
    /\ files = <<>>
    /\ walk_raises = FALSE
    /\ fields = DefaultFields
    /\ include_path = FALSE
    /\ Start
    /\ chunk = <<>> /\ flag \in {"pass", "fail"} /\ lines = <<>>
    /\ entry_dict = <<>> /\ exc = "" /\ d = <<>> /\ c = <<>>
    /\ ppos = "idle"
    /\ input_fastq \in FastqFiles
    /\ jobs = <<>> /\ results = <<>> /\ fastq_dict = <<>>
    /\ ipos = "open"

NextChunks ==
    \/ ApplyAsync
    \/ \E j \in 1..Len(jobs) : PoolTake(j)
    \/ \E j \in 1..Len(jobs) : PoolDone(j)
    \/ GetResult
    \/ Merge

ChunkSpec == InitChunks /\ [][NextChunks]_vars

\* ------------------------------------------------------------------ claims
\* Everything ever put on error_q, in the order it was put: the orchestrator
\* is the only reader and reads at most one value.
ErrHist == tb \o error_q
Errors(q) == {k \in 1..Len(q) : IsError(q[k])}
AllStarted == \A k \in 1..NP : pc[k] # "new"
AllStopped == \A k \in 1..NP : pc[k] \in {"exited", "killed"}
AllExited == \A k \in 1..NP : pc[k] = "exited"
Min(a, b) == IF a < b THEN a ELSE b
RECURSIVE ReadsUpTo(_)
ReadsUpTo(f) == IF f = 0 THEN 0 ELSE ReadsUpTo(f - 1) + Len(files[f].ts)
TotalReads == ReadsUpTo(K)

\* C1: an unreadable fastq_dir, an unwritable directory of seq_summary_fn or
\* threads below 3 makes the constructor raise pycoQCError at once: no queue
\* is made, no process of ps_list is ever started; threads = 3 is accepted.
C1_ConfigRejected ==
    /\ (~fastq_dir_ok \/ ~out_dir_ok \/ threads < 3) =>
          /\ orch \in {"init", "rejected"}
          /\ \A k \in 1..NP : pc[k] = "new"
          /\ in_q = <<>> /\ out_q = <<>> /\ error_q = <<>> /\ counter_q = <<>>
          /\ orch = "rejected" => Len(raised) = 1 /\ raised[1].by = "__init__"
    /\ (fastq_dir_ok /\ out_dir_ok /\ threads >= 3) =>
          /\ orch # "rejected"
          /\ orch # "init" => raised = <<>> \/ raised[1].by # "__init__"

C1_Witness ==
    /\ fastq_dir_ok /\ out_dir_ok /\ threads = 2
    /\ orch = "rejected"
    /\ raised = <<Error("__init__", "At least 3 threads required")>>

\* C2: the orchestrator goes on to join and return only if no traceback was
\* ever put on error_q; when the writer's None is the first value put on
\* error_q no traceback is put at all, so a traceback that is put is there
\* for the orchestrator's read before the None.
C2_SuccessMeansNoError ==
    /\ orch \in {"join", "returned"} => ~HasError(ErrHist)
    /\ (ErrHist # <<>> /\ ErrHist[1] = None) => ~HasError(ErrHist)

C2_Witness == orch = "returned" /\ csv.written /\ K = MaxFiles

\* C3: the orchestrator reads error_q only after it started every process;
\* when the first value is a traceback every process is terminated (or has
\* exited) and exactly one exception, carrying that first value, is raised;
\* when it is None every process is joined and nothing is raised.
C3_FirstValueDecides ==
    /\ tb # <<>> => AllStarted /\ tb = <<ErrHist[1]>>
    /\ orch \in {"terminate", "raised"} => IsError(tb[1]) /\ raised = tb
    /\ orch = "raised" => AllStopped
    /\ orch \in {"join", "returned"} => tb = <<None>> /\ raised = <<>>
    /\ orch = "returned" => AllExited

C3_Witness ==
    /\ orch = "raised"
    /\ Cardinality(Errors(ErrHist)) >= 2
    /\ \E k \in 1..NP : pc[k] = "killed"

\* C4 (as claimed): once any process has put a traceback on error_q,
\* seq_summary_fn is not written.
C4_NoTableOnError == HasError(ErrHist) => ~csv.written

\* C5: with no fastq file under fastq_dir (the walk ends without a file and
\* without an exception) the table is never written, the
\* orchestrator never takes the run for a success, _list_fastq puts its
\* "No valid fastq files" error exactly once, that error is the one
\* exception the caller gets, and under fair scheduling the caller gets it.
ZeroFilesSafe ==
    (K = 0 /\ ~walk_raises) =>
        /\ ~csv.written
        /\ orch \notin {"join", "returned"}
        /\ Cardinality({k \in 1..Len(ErrHist) : ErrHist[k] = NoFastq}) <= 1
        /\ pc[Lister] \in {"poison", "exited"} => NoFastq \in {ErrHist[k] : k \in 1..Len(ErrHist)}
        /\ orch \in {"terminate", "raised"} => raised = <<NoFastq>>

C5_ZeroFiles ==
    /\ []ZeroFilesSafe
    /\ (K = 0 /\ ~walk_raises /\ orch = "start") ~> (orch = "raised" /\ raised = <<NoFastq>> /\ AllStopped)

C5_Witness ==
    /\ K = 0 /\ ~walk_raises
    /\ orch = "raised"
    /\ raised = <<NoFastq>>
    /\ pc[Writer] = "exited"

\* C6 (as claimed): when _list_fastq has left its loop it has put
\* min(max_fastq, K) paths on in_q, and all K paths when max_fastq = 0.
C6_PushesMinCapFiles ==
    pc[Lister] \in {"poison", "exited"} =>
        npush = IF max_fastq > 0 THEN Min(max_fastq, K) ELSE K

\* C7: a run in which nothing is rejected and no traceback is put on error_q
\* ends, under fair scheduling, with every worker stopped by a None, the
\* table written, N counters read, the final None put and read, and every
\* process joined.
Done ==
    /\ orch = "returned"
    /\ AllExited
    /\ csv.written
    /\ nsrc = N /\ ncnt = N
    /\ in_q = <<>> /\ out_q = <<>> /\ counter_q = <<>> /\ error_q = <<>>

C7_CleanRunCompletes == <>(orch = "rejected" \/ HasError(ErrHist) \/ Done)

C7_Witness == Done /\ N = 2 /\ K = MaxFiles /\ TotalReads > QueueCap

\* C8 (as claimed): no process holds more records than a fixed number, the
\* capacity of the queues: neither the writer's l nor the value_dict a
\* worker gets from the parser.
C8_FixedRecordBound ==
    /\ Len(l) <= QueueCap
    /\ \A w \in Workers : Len(value_dict[w]) <= QueueCap

\* C8 (amended): only in_q and out_q are bounded, by their maxsize; l holds
\* up to all the reads of the input and value_dict up to all the reads of
\* a file.
C8_OnlyQueuesBounded ==
    /\ Len(in_q) <= QueueCap
    /\ Len(out_q) <= QueueCap
    /\ Len(l) <= TotalReads
    /\ \A w \in Workers :
          pc[Proc(w)] = "put" => Len(value_dict[w]) <= Len(files[fastq_fn[w]].ts)

C8_Witness ==
    /\ TotalReads > QueueCap
    /\ Len(l) = TotalReads
    /\ csv.written

\* C9 (as claimed): the rows of the written table are in non-decreasing
\* order of start_time.
C9_RowsSortedByStartTime ==
    csv.written =>
        \A a, b \in 1..Len(csv.rows) :
            (a < b /\ csv.rows[a].start_time # NaN /\ csv.rows[b].start_time # NaN)
                => csv.rows[a].start_time <= csv.rows[b].start_time

\* C9 (amended): the rows of the written table are in the order in which
\* the writer got the records from out_q; start_time is only rewritten.
C9_RowsInArrivalOrder ==
    csv.written =>
        /\ Len(csv.rows) = Len(l)
        /\ \A k \in 1..Len(l) :
              /\ csv.rows[k].read_id = l[k].id
              /\ csv.rows[k].start_time = Elapsed(l[k].ts, TimeZero(l))

C9_Witness ==
    /\ csv.written
    /\ \E a, b \in 1..Len(csv.rows) :
          /\ a < b
          /\ csv.rows[b].start_time # NaN
          /\ csv.rows[b].start_time < csv.rows[a].start_time

\* C10 (as claimed): over the same files, the run with one worker and the
\* run with four workers write tables with the same number of rows and the
\* same read_ids (read_ids are pairwise distinct, so the multisets are the
\* sets).
RowIds(table) == {table.rows[k].read_id : k \in 1..Len(table.rows)}
BothOver == earlier # <<>> /\ orch \in {"returned", "raised"}

C10_SameReadIds ==
    BothOver =>
        /\ Len(csv.rows) = Len(earlier[1].table.rows)
        /\ RowIds(csv) = RowIds(earlier[1].table)

\* C10, for two runs that both return without an exception (no file makes
\* a worker fail): the two tables hold the same read_ids, those of all the
\* reads of the files put on in_q.
C10_SameReadIdsOnSuccess ==
    (BothOver /\ earlier[1].success /\ orch = "returned") =>
        /\ Len(csv.rows) = Len(earlier[1].table.rows)
        /\ RowIds(csv) = RowIds(earlier[1].table)
        /\ RowIds(csv) = UNION {{ReadsOf(f)[j].id : j \in 1..Len(files[f].ts)} : f \in 1..npush}

C10_BothSucceed ==
    /\ BothOver /\ earlier[1].success /\ orch = "returned"
    /\ Len(csv.rows) > QueueCap

\* The positions that only _list_fastq, only _read_fastq and only
\* _write_seq_summary take.
ListerPcs == {"list", "poison"}
WorkerPcs == {"get", "parse", "put", "count", "pill"}
WriterPcs == {"collect", "write", "summarize", "end"}

\* C11: ps_list holds one _list_fastq, threads - 2 _read_fastq and one
\* _write_seq_summary, in this order; _list_fastq puts threads - 2 Nones on
\* in_q, the writer waits for threads - 2 Nones on out_q and reads
\* threads - 2 counters from counter_q.
C11_SameN ==
    orch \notin {"init", "rejected"} =>
        /\ DOMAIN pc = 1..threads
        /\ \A k \in DOMAIN pc :
              /\ pc[k] \in ListerPcs => k = 1
              /\ pc[k] \in WorkerPcs => (2 <= k /\ k <= threads - 1)
              /\ pc[k] \in WriterPcs => k = threads
        /\ nsent <= threads - 2
        /\ pc[1] = "exited" => nsent = threads - 2
        /\ nsrc <= threads - 2
        /\ pc[threads] \in {"write", "summarize", "end", "exited"} => nsrc = threads - 2
        /\ pc[threads] = "summarize" => ncnt < threads - 2
        /\ (pc[threads] \in {"end", "exited"} /\ csv.written) => ncnt = threads - 2

C11_Witness ==
    /\ orch = "returned"
    /\ threads = MaxThreads
    /\ nsent = MaxThreads - 2 /\ nsrc = MaxThreads - 2 /\ ncnt = MaxThreads - 2

\* C12: when every record of l has a valid timestamp, the rows of the
\* written table with the earliest timestamp have start_time 0, no row has
\* a negative start_time, and every start_time is the record's timestamp
\* minus the earliest one, in seconds.
AllTimed == \A k \in 1..Len(l) : l[k].ts # NaT
Earliest(k) == \A j \in 1..Len(l) : l[k].ts <= l[j].ts

PathColumn == IF include_path THEN <<"path">> ELSE <<>>

C13_HeaderIsFields == csv.written => csv.header = fields \o PathColumn

\* The names of a list, each at its first mention only.
RECURSIVE FirstMentions(_)
FirstMentions(names) ==
    IF names = <<>> THEN <<>>
    ELSE LET front == SubSeq(names, 1, Len(names) - 1)
             last == names[Len(names)]
         IN  IF last \in Range(front) THEN FirstMentions(front)
             ELSE Append(FirstMentions(front), last)

\* C13 (amended): the header of the written table is the fields argument
\* without the fields that no read's dict has as a key (of the default
\* fields, calibration_strand_genome_template), in its order and each at
\* its first mention only, followed by the path column exactly when
\* include_path is set.
C13_HeaderIsFieldsFound ==
    csv.written =>
        csv.header =
            FirstMentions(SelectSeq(fields, LAMBDA field : field \in EntryKeys)) \o PathColumn

C13_Witness ==
    /\ csv.written
    /\ include_path
    /\ fields = DefaultFields
    /\ csv.header =
          <<"read_id", "run_id", "channel", "start_time", "gc_percent",
            "sequence_length_template", "mean_qscore_template", "barcode_arrangement",
            "path">>
    /\ Len(csv.rows) >= 3

\* The read group the parser was given, and what it made of it.
Extracted == ppos \in {"parsed", "done"}
SeqLine == SubSeq(chunk[2], 1, Len(chunk[2]) - 1)
QualLine == SubSeq(chunk[4], 1, Len(chunk[4]) - 1)
Abs(x) == IF x < 0 THEN -x ELSE x
\* The header of the chunk has no start_time, or one that is no time.
NoStartTime == "start_time" \notin Range(chunk[1])
BadStartTime == "never" \in Range(chunk[1])

\* C14 (as claimed): for a read with a sequence whose header has no barcode
\* key nothing is raised, d has '' as barcode_arrangement and
\* fields_not_found of barcode_arrangement is incremented by one.
C14_NoBarcodeCountedNotFound ==
    ("barcode" \notin Range(chunk[1]) /\ SeqLine # <<>> /\ ~BadStartTime) =>
        /\ exc = ""
        /\ ppos = "done" =>
              /\ d.val["barcode_arrangement"] = <<>>
              /\ c.fields_not_found["barcode_arrangement"] = 1

\* C15 (as claimed): a read group with an empty sequence line raises no
\* ZeroDivisionError and no traceback is put on error_q for it; when a dict
\* is made for it, its mean_qscore_template and gc_percent are 0.
C15_EmptySeqTolerated ==
    (SeqLine = <<>> /\ ~BadStartTime) =>
        /\ exc # "ZeroDivisionError"
        /\ ~HasError(error_q)
        /\ Extracted =>
              /\ entry_dict[1].val.mean_qscore_template = 0
              /\ entry_dict[1].val.gc_percent = 0

\* C16: the dict made for a read group is keyed by, and has as read_id, the
\* first token of the header line without its first character, and has as
\* sequence_length_template the number of characters of the sequence line.
C16_ReadIdAndLength ==
    Extracted =>
        LET e == entry_dict[1]
        IN  /\ Len(entry_dict) = 1
            /\ e.key = e.val.read_id
            /\ e.key = SubSeq(chunk[1], 2, Len(e.key) + 1)
            /\ \A k \in 1..(Len(e.key) + 1) : chunk[1][k] \notin Whitespace
            /\ chunk[1][Len(e.key) + 2] \in Whitespace
            /\ e.val.sequence_length_template = Len(SeqLine)

C16_Witness ==
    /\ ppos = "done"
    /\ entry_dict[1].key = <<"r", "2">>
    /\ entry_dict[1].val.sequence_length_template = MaxSeq
    /\ "runid" \in Range(chunk[1])

\* C17: for a quality line that is not empty and as long as the sequence
\* line, mean_qscore_template is the sum of (code - 33) over its characters
\* divided by the sequence length, rounded to 2 decimals: 0.0 when every
\* character has code 33, 40.0 when every character has code 73.
C17_MeanQuality ==
    (Extracted /\ QualLine # <<>> /\ Len(QualLine) = Len(SeqLine)) =>
        LET n == Len(SeqLine)
            total == Sum([k \in 1..Len(QualLine) |-> Ord(QualLine[k]) - 33])
            mean == entry_dict[1].val.mean_qscore_template
        IN  /\ 2 * Abs(mean * n - 100 * total) <= n
            /\ (\A k \in 1..n : Ord(QualLine[k]) = 33) => mean = 0
            /\ (\A k \in 1..n : Ord(QualLine[k]) = 73) => mean = 4000

C17_Witness ==
    /\ ppos = "done"
    /\ QualLine = <<"I", "!", "I">>
    /\ Len(SeqLine) = 3
    /\ entry_dict[1].val.mean_qscore_template = 2667

\* C18: for a sequence line that is not empty, gc_percent is 100 times the
\* number of its characters that are "G" or "C", divided by its length,
\* rounded to 2 decimals; "g" and every other character count for nothing.
C18_GcPercent ==
    (Extracted /\ SeqLine # <<>>) =>
        LET n == Len(SeqLine)
            gc == Cardinality({k \in 1..n : SeqLine[k] \in {"G", "C"}})
            percent == entry_dict[1].val.gc_percent
        IN  /\ 2 * Abs(percent * n - 10000 * gc) <= n
            /\ gc = n => percent = 10000
            /\ gc = 0 => percent = 0

C18_Witness ==
    /\ ppos = "done"
    /\ SeqLine = <<"G", "g", "C">>
    /\ entry_dict[1].val.gc_percent = 6667

\* C19: however _list_fastq leaves its loop (end of the walk, break, no
\* file found, an exception of the walk), it puts threads - 2 Nones on in_q
\* before it exits, every one after its last path, and the traceback it
\* puts on error_q, at most one, is put before its first None.
ListerErrors == {k \in 1..Len(ErrHist) : IsError(ErrHist[k]) /\ ErrHist[k].by = "_list_fastq"}

\* i reaches max_fastq only by the step that breaks.
Broke == max_fastq # 0 /\ i = max_fastq

PillsSafe ==
    /\ nsent <= threads - 2
    /\ pc[Lister] = "exited" => nsent = threads - 2
    /\ nsent > 0 => pc[Lister] \in {"poison", "exited", "killed"}
    /\ \A a, b \in 1..Len(in_q) : (a < b /\ in_q[a] = None) => in_q[b] = None
    /\ Cardinality(ListerErrors) <= 1
    /\ pc[Lister] \in {"poison", "exited"} =>
          (ListerErrors # {} <=> (~Broke /\ (walk_raises \/ K = 0)))

PillsLast ==
    /\ npush' > npush => (nsent = 0 /\ nsent' = 0)
    /\ ListerErrors' # ListerErrors => (nsent = 0 /\ nsent' = 0)

C19_PillsOnEveryPath == []PillsSafe /\ [][PillsLast]_vars

C19_Witness ==
    /\ walk_raises
    /\ pc[Lister] = "exited"
    /\ npush = MaxFiles
    /\ nsent = MaxThreads - 2
    /\ ErrHist # <<>> /\ ErrHist[1] = WalkError

\* C20 (as claimed): at most one None is ever put on error_q, the writer
\* has put it when it exits, and the writer is never left waiting for
\* something that cannot come: once every worker has exited, a writer that
\* has not been terminated can take its next step.
WriterNones == {k \in 1..Len(ErrHist) : ErrHist[k] = None}

C20_WriterAlwaysEnds ==
    /\ Cardinality(WriterNones) <= 1
    /\ pc[Writer] = "exited" => Cardinality(WriterNones) = 1
    /\ (pc[Writer] \in WriterPcs /\ \A w \in Workers : pc[Proc(w)] = "exited")
          => ENABLED WriteSeqSummary

\* ------------------------------------------------------------------ C21
NonesIn(q) == Cardinality({k \in 1..Len(q) : q[k] = None})
RecordsIn(q) == SelectSeq(q, LAMBDA x : x # None)
WorkersAt(positions) == {w \in Workers : pc[Proc(w)] \in positions}
CountersPut == Len(counter_q) + ncnt
NonesPut == NonesIn(out_q) + nsrc

\* The steps of worker w from the None of in_q on: it takes the None and
\* goes to counter_q.put, puts its counters and nothing else, puts its None
\* and nothing else, and has exited for good.
AfterSentinel(w) ==
    /\ (pc[Proc(w)] = "get" /\ pc'[Proc(w)] \notin {"get", "killed"}) =>
            /\ in_q # <<>>
            /\ in_q' = Tail(in_q)
            /\ (Head(in_q) = None) <=> (pc'[Proc(w)] = "count")
    /\ (pc[Proc(w)] = "count" /\ pc'[Proc(w)] \notin {"count", "killed"}) =>
            /\ pc'[Proc(w)] = "pill"
            /\ counter_q' = Append(counter_q, [by |-> w, c |-> worker_c[w]])
            /\ in_q' = in_q /\ out_q' = out_q /\ error_q' = error_q
    /\ (pc[Proc(w)] = "pill" /\ pc'[Proc(w)] \notin {"pill", "killed"}) =>
            /\ pc'[Proc(w)] = "exited"
            /\ out_q' = Append(out_q, None)
            /\ in_q' = in_q /\ counter_q' = counter_q /\ error_q' = error_q
    /\ pc[Proc(w)] = "exited" => pc'[Proc(w)] = "exited"

\* Something leaves in_q only to a worker at in_q.get, and a record goes on
\* out_q only from a worker inside its loop over value_dict.
OnlyInTheLoop ==
    /\ Len(in_q') < Len(in_q) =>
            \E w \in Workers : pc[Proc(w)] = "get" /\ pc'[Proc(w)] \in {"count", "parse"}
    /\ sent' # sent =>
            /\ WorkersAt({"put"}) # {}
            /\ Len(out_q') = Len(out_q) + 1

\* Each exited worker has put one None on out_q, and where nothing failed
\* each worker past counter_q.put has put one counters message.
OnePerWorker ==
    /\ NonesPut = Cardinality(WorkersAt({"exited"}))
    /\ ErrHist \in {<<>>, <<None>>} => CountersPut = Cardinality(WorkersAt({"pill", "exited"}))

\* C21: a worker that takes the None from in_q takes nothing more from it,
\* then puts exactly one counters message on counter_q, then exactly one
\* None on out_q, then exits; every record it put on out_q was put before
\* its None.
C21_SentinelCountersPillExit ==
    /\ []OnePerWorker
    /\ [][OnlyInTheLoop /\ \A w \in Workers : AfterSentinel(w)]_vars

C21_Witness ==
    /\ N = 2
    /\ WorkersAt({"exited"}) = Workers
    /\ CountersPut = 2
    /\ NonesPut = 2
    /\ Len(sent) >= 2

\* ------------------------------------------------------------------ C22
ReaderErrors == {k \in 1..Len(ErrHist) : IsError(ErrHist[k]) /\ ErrHist[k].by = "_read_fastq"}
BadPopped == {k \in 1..Len(popped) : ~files[popped[k]].ok}

\* The steps of worker w whose file cannot be read: the traceback goes on
\* error_q and nothing else is touched, then the None goes on out_q and
\* nothing is taken from in_q, then the worker has exited.
AfterRaise(w) ==
    /\ (pc[Proc(w)] = "parse" /\ ~files[fastq_fn[w]].ok
            /\ pc'[Proc(w)] \notin {"parse", "killed"}) =>
            /\ pc'[Proc(w)] = "pill"
            /\ error_q' = Append(error_q, Error("_read_fastq", "iterate_fastq_parallel"))
            /\ in_q' = in_q /\ out_q' = out_q /\ counter_q' = counter_q
            /\ popped' = popped /\ sent' = sent
    /\ (pc[Proc(w)] = "pill" /\ pc'[Proc(w)] \notin {"pill", "killed"}) =>
            /\ pc'[Proc(w)] = "exited"
            /\ out_q' = Append(out_q, None)
            /\ error_q' = error_q
            /\ popped' = popped /\ sent' = sent
    /\ pc[Proc(w)] = "exited" => (pc'[Proc(w)] = "exited" /\ fastq_fn'[w] = fastq_fn[w])

\* A traceback of _read_fastq is put only by a worker at a file it cannot
\* read.
OnlyOnRaise ==
    (\E k \in 1..Len(error_q') : k > Len(error_q) /\ error_q'[k].tag = "err"
                                    /\ error_q'[k].by = "_read_fastq") =>
        \E w \in Workers : pc[Proc(w)] = "parse" /\ ~files[fastq_fn[w]].ok
                                /\ pc'[Proc(w)] = "pill"

\* Each worker past its loop has put one message, its counters or its
\* traceback; there are no more tracebacks than unreadable files taken, and
\* no worker has more than one.
OneErrorPerWorker ==
    /\ Cardinality(ReaderErrors) + CountersPut >= Cardinality(WorkersAt({"pill", "exited"}))
    /\ Cardinality(ReaderErrors) + CountersPut
            <= Cardinality(WorkersAt({"pill", "exited", "killed"}))
    /\ Cardinality(ReaderErrors) <= Cardinality(BadPopped)
    /\ \A w \in Workers : pc[Proc(w)] \in {"pill", "exited"} /\ fastq_fn[w] # 0
                                /\ ~files[fastq_fn[w]].ok
            => ReaderErrors # {}

\* C22: when the extraction of a file raises in a worker, the worker puts
\* exactly one traceback on error_q, handles no further file, and still
\* puts exactly one None on out_q before it exits, the traceback first.
C22_ErrorThenPill ==
    /\ []OneErrorPerWorker
    /\ []OnePerWorker
    /\ [][OnlyOnRaise /\ \A w \in Workers : AfterRaise(w)]_vars

C22_Witness ==
    /\ N = 1
    /\ pc[Proc(1)] = "exited"
    /\ fastq_fn[1] # 0
    /\ ~files[fastq_fn[1]].ok
    /\ Cardinality(ReaderErrors) = 1
    /\ NonesPut = 1
    /\ CountersPut = 0
    /\ in_q # <<>> /\ Head(in_q).tag = "path"

\* ------------------------------------------------------------------ C23
PastCollect == pc[Writer] \in {"write", "summarize", "end", "exited"} \/ csv.written

\* C23: the writer builds and writes the table only after it has taken
\* exactly N Nones from out_q; by then every record any worker put on out_q
\* has come out of it into l, and no worker puts another one.
C23_WritesAfterAllNones ==
    /\ [](PastCollect =>
            /\ nsrc = N
            /\ Len(l) = Len(sent)
            /\ out_q = <<>>
            /\ WorkersAt({"exited"}) = Workers)
    /\ [][PastCollect => (sent' = sent /\ out_q' = out_q /\ l' = l)]_vars

C23_Witness ==
    /\ pc[Writer] = "write"
    /\ N = 2
    /\ Len(l) > QueueCap + 1
    /\ \E j, k \in 1..Len(l) : l[j].id \in {r.id : r \in Range(ReadsOf(1))}
                                /\ l[k].id \in {r.id : r \in Range(ReadsOf(2))}
                                /\ k < j

\* ------------------------------------------------------------------ C24
NoRepeat(seq) == \A j, k \in 1..Len(seq) : j # k => seq[j] # seq[k]
PathsIn(q) == [k \in 1..Len(RecordsIn(q)) |-> RecordsIn(q)[k].fn]
Holding(w) == pc[Proc(w)] \in {"parse", "put"}

\* A path leaves in_q to exactly one worker, which is then the only one
\* that holds it.
TakenByOne ==
    popped' # popped =>
        /\ popped' = Append(popped, Head(in_q).fn)
        /\ Cardinality({w \in Workers : pc[Proc(w)] = "get" /\ pc'[Proc(w)] = "parse"
                                            /\ fastq_fn'[w] = Head(in_q).fn}) = 1
        /\ \A w \in Workers : Holding(w) => fastq_fn[w] # Head(in_q).fn

\* C24: every path _list_fastq puts on in_q is taken by at most one worker,
\* and by exactly one where nothing failed: no path is parsed twice, and
\* none is left on in_q when the run succeeds.
C24_EachPathOnce ==
    /\ [](/\ NoRepeat(popped)
          /\ popped \o PathsIn(in_q) = [k \in 1..npush |-> k]
          /\ \A v, w \in Workers : (v # w /\ Holding(v) /\ Holding(w))
                                        => fastq_fn[v] # fastq_fn[w]
          /\ (ErrHist # <<>> /\ ~HasError(ErrHist)) =>
                    /\ Range(popped) = 1..npush
                    /\ in_q = <<>>
                    /\ WorkersAt({"exited"}) = Workers)
    /\ [][TakenByOne]_vars

C24_Witness ==
    /\ orch = "returned"
    /\ N = 2
    /\ popped = <<1, 2>>
    /\ \E j, k \in 1..Len(l) : l[j].id \in {r.id : r \in Range(ReadsOf(2))}
                                /\ l[k].id \in {r.id : r \in Range(ReadsOf(1))}
                                /\ j < k

\* ------------------------------------------------------------------ C25
\* C25: in a run without errors every record a worker put on out_q is in l
\* exactly once when the writer writes the table, and the table has as many
\* rows as records were put.
C25_NoRecordLostOrRepeated ==
    (csv.written /\ ~HasError(ErrHist)) =>
        /\ l = sent
        /\ NoRepeat(l)
        /\ Len(csv.rows) = Len(sent)

\* What holds of it: as many rows as records put.
C25_AsManyRows ==
    (csv.written /\ ~HasError(ErrHist)) => Len(csv.rows) = Len(sent) /\ Len(l) = Len(sent)

\* ------------------------------------------------------------------ C26
Interrupted == raised = <<KeyboardInterrupt>>

\* C26: a KeyboardInterrupt that reaches the orchestrator while it waits in
\* error_q.get() or joins the processes makes it terminate every process of
\* ps_list before the exception is raised to the caller.
C26_InterruptTerminatesAll ==
    /\ [](Interrupted =>
            /\ orch \in {"terminate", "raised"}
            /\ \A k \in 1..NP : (orch = "raised" \/ k <= oi) => pc[k] \in {"exited", "killed"})
    /\ [][(Interrupted' /\ ~Interrupted) => (orch' = "terminate" /\ oi' = 0 /\ pc' = pc)]_vars

C26_Witness ==
    /\ Interrupted
    /\ orch = "raised"
    /\ tb = <<>>
    /\ N = 2
    /\ pc[Lister] = "exited"
    /\ pc[Writer] = "killed"
    /\ \E w \in Workers : pc[Proc(w)] = "killed"

\* ------------------------------------------------------------------ C27
\* _list_fastq is at an in_q.put, worker w is at an out_q.put.
ListerAtPut ==
    \/ pc[Lister] = "list" /\ i < K /\ ~ListBreaks
    \/ pc[Lister] = "poison"
WorkerAtPut(w) ==
    \/ pc[Proc(w)] = "put" /\ Fetch(Head(value_dict[w])).keys # <<>>
    \/ pc[Proc(w)] = "pill"

\* C27: in_q and out_q never hold more than their maxsize (QueueCap, for
\* 1000); a process at a put on a full queue takes no step until a get has
\* taken an item, and a process at a get on an empty queue takes no step
\* until a put.
C27_QueuesBoundedAndBlocking ==
    /\ Len(in_q) <= QueueCap
    /\ Len(out_q) <= QueueCap
    /\ (ListerAtPut /\ Len(in_q) = QueueCap) => ~ENABLED ListFastq
    /\ (ListerAtPut /\ Len(in_q) < QueueCap) => ENABLED ListFastq
    /\ \A w \in Workers :
          /\ (WorkerAtPut(w) /\ Len(out_q) = QueueCap) => ~ENABLED ReadFastq(w)
          /\ (WorkerAtPut(w) /\ Len(out_q) < QueueCap) => ENABLED ReadFastq(w)
          /\ pc[Proc(w)] = "get" => (in_q = <<>> <=> ~ENABLED ReadFastq(w))
    /\ pc[Writer] = "collect" => (out_q = <<>> <=> ~ENABLED WriteSeqSummary)

C27_Witness ==
    /\ N = 1
    /\ ListerAtPut /\ Len(in_q) = QueueCap
    /\ pc[Proc(1)] = "put" /\ Len(out_q) = QueueCap
    /\ pc[Writer] = "collect"

\* ------------------------------------------------------------------ C28
\* C28 (as claimed): a read whose start_time is missing or cannot be parsed
\* does not abort the run: nothing is raised for it and no traceback is put
\* on error_q; its record is made, with the missing value as start_time.
C28_StartTimeNeverAborts ==
    ((NoStartTime \/ BadStartTime) /\ SeqLine # <<>>) =>
        /\ exc = ""
        /\ ~HasError(error_q)
        /\ ppos = "done" => d.val["start_time"] = NaT

\* What holds of it, for the reads without start_time: nothing is raised
\* and the record has the missing value.
C28_MissingStartTimeKept ==
    (NoStartTime /\ SeqLine # <<>>) =>
        /\ exc = ""
        /\ ~HasError(error_q)
        /\ ppos = "done" => d.val["start_time"] = NaT

\* And in the table: the rows of the records without start_time have NaN,
\* the others their seconds since the earliest start_time.
C28_RowsOfMissing ==
    csv.written =>
        \A k \in 1..Len(l) :
            IF l[k].ts = NaT THEN csv.rows[k].start_time = NaN
            ELSE \E e \in 1..Len(l) :
                    /\ l[e].ts # NaT
                    /\ \A j \in 1..Len(l) : l[j].ts # NaT => l[e].ts <= l[j].ts
                    /\ csv.rows[k].start_time = l[k].ts - l[e].ts

\* ------------------------------------------------------------------ C29
\* The whole groups of four lines of the file, and the dict item of each.
WholeGroups == Len(input_fastq) \div GroupLines
GroupAt(k) == SubSeq(input_fastq, GroupLines * (k - 1) + 1, GroupLines * k)
RecordOf(k) == EntryDict(Stripped(GroupAt(k)), flag)[1]
DistinctIds == \A j, k \in 1..WholeGroups : j # k => RecordOf(j).key # RecordOf(k).key
Chunks == [j \in 1..Len(jobs) |-> jobs[j].chunk]

\* C29: for a file of L lines whose read_ids are pairwise distinct,
\* iterate_fastq_parallel returns exactly L \div 4 items, one per whole
\* group of four lines, in the order of the file; the one to three lines
\* after the last whole group are dropped and nothing is raised; no group
\* is split between two chunks, the size of a chunk being a multiple of 4.
C29_OneRecordPerGroup ==
    /\ exc = "" /\ ipos # "raised"
    /\ ChunkLines % GroupLines = 0
    /\ ipos # "open" =>
            /\ Flatten(Chunks) = input_fastq
            /\ \A j \in 1..Len(jobs) :
                    /\ jobs[j].chunk # <<>>
                    /\ j < Len(jobs) => Len(jobs[j].chunk) = ChunkLines
                    /\ Len(jobs[j].chunk) <= ChunkLines
    /\ (ipos = "returned" /\ DistinctIds) =>
            /\ Len(fastq_dict) = Len(input_fastq) \div 4
            /\ \A k \in 1..Len(fastq_dict) : fastq_dict[k] = RecordOf(k)

C29_Witness ==
    /\ ipos = "returned"
    /\ DistinctIds
    /\ Len(input_fastq) = GroupLines * MaxGroups + 3
    /\ Len(jobs) > 1
    /\ Len(fastq_dict) = MaxGroups

\* ------------------------------------------------------------------ C30
FirstOf(key) == CHOOSE k \in 1..WholeGroups :
                    /\ RecordOf(k).key = key
                    /\ \A j \in 1..(k - 1) : RecordOf(j).key # key
LastOf(key) == CHOOSE k \in 1..WholeGroups :
                    /\ RecordOf(k).key = key
                    /\ \A j \in (k + 1)..WholeGroups : RecordOf(j).key # key

\* C30: what iterate_fastq_parallel returns is what putting the items of
\* all the whole groups into one dict, in the order of the file, gives,
\* whatever the size of the pool and the order in which the jobs end: one
\* item per read_id, at the place of the first group that has it, with the
\* values of the last group that has it.
C30_MergeInFileOrder ==
    ipos = "returned" =>
        /\ \A k \in 1..WholeGroups :
                Cardinality({e \in 1..Len(fastq_dict) : fastq_dict[e].key = RecordOf(k).key}) = 1
        /\ \A e \in 1..Len(fastq_dict) :
                /\ \E k \in 1..WholeGroups : RecordOf(k).key = fastq_dict[e].key
                /\ fastq_dict[e] = RecordOf(LastOf(fastq_dict[e].key))
        /\ \A e1, e2 \in 1..Len(fastq_dict) :
                e1 < e2 => FirstOf(fastq_dict[e1].key) < FirstOf(fastq_dict[e2].key)

C30_Witness ==
    /\ ipos = "returned"
    /\ N = 2
    /\ WholeGroups = MaxGroups
    /\ Len(jobs) > 1
    /\ RecordOf(1).key = RecordOf(WholeGroups).key
    /\ RecordOf(1).val # RecordOf(WholeGroups).val
    /\ RecordOf(2).key # RecordOf(1).key
    /\ Len(fastq_dict) = 2
    /\ fastq_dict[1] = RecordOf(WholeGroups)

\* ------------------------------------------------------------------ C31
\* The tokens of the header of the chunk, and whether every one after the
\* first is a key=value pair.
Items == Split(RStrip(chunk[1]))
KeyValuePairs == \A k \in 2..Len(Items) : Len(SplitOn(Items[k], "=")) = 2
HeaderErrors == {"ValueError", "ParserError", "IndexError"}
\* What the record has for the keys of the header: '' for each of the four
\* that is absent, no field for any other key.
AbsentYieldEmpty ==
    LET val == entry_dict[1].val
    IN  /\ DOMAIN val = EntryKeys
        /\ "runid" \notin Range(chunk[1]) => val.run_id = <<>>
        /\ "ch" \notin Range(chunk[1]) => val.channel = <<>>
        /\ "barcode" \notin Range(chunk[1]) => val.barcode_arrangement = <<>>
        /\ "start_time" \notin Range(chunk[1]) => val.start_time = NaT
        /\ "ch" \in Range(chunk[1]) => val.channel = <<"207">>

\* C31 (as claimed): parsing a header whose tokens after the first are
\* key=value pairs never raises; keys other than runid, start_time, ch and
\* barcode are ignored and each of the four that is absent yields '' for
\* its field of the record.
C31_PairsNeverRaise ==
    KeyValuePairs =>
        /\ exc \notin HeaderErrors
        /\ Extracted => AbsentYieldEmpty

\* What holds of it: the same, for the headers whose start_time, when they
\* have one, is a time.
C31_PairsWithATimeParse ==
    (KeyValuePairs /\ ~BadStartTime) =>
        /\ exc \notin HeaderErrors
        /\ Extracted => AbsentYieldEmpty

\* ------------------------------------------------------------------ C32
\* The sums, over the workers, of their counters.
SumOfWorkers ==
    [fields_found |->
        [field \in Range(fields) |-> Sum([w \in Workers |-> worker_c[w].fields_found[field]])],
     fields_not_found |->
        [field \in Range(fields) |-> Sum([w \in Workers |-> worker_c[w].fields_not_found[field]])],
     valid |-> Sum([w \in Workers |-> worker_c[w].valid]),
     invalid |-> Sum([w \in Workers |-> worker_c[w].invalid])]
\* The writer is through with counter_q and nothing was put on error_q
\* but its None.
SummedUp == pc[Writer] \in {"end", "exited"} /\ ~HasError(ErrHist)

\* C32: the messages on counter_q are the counters of distinct workers,
\* each as its worker left them; in a run without errors the writer takes
\* exactly N of them, counter_q is empty afterwards, and under every key of
\* overall, fields_found and fields_not_found its sum is the sum over all
\* the workers of their values.
C32_CountersSummed ==
    /\ \A k \in 1..Len(counter_q) :
            /\ counter_q[k].c = worker_c[counter_q[k].by]
            /\ \A j \in 1..Len(counter_q) : counter_q[j].by = counter_q[k].by => j = k
    /\ ncnt <= N
    /\ SummedUp =>
            /\ ncnt = N
            /\ counter_q = <<>>
            /\ counts = SumOfWorkers

C32_Witness ==
    /\ SummedUp
    /\ N = 2
    /\ worker_c[1].valid = 1 /\ worker_c[2].valid = 2
    /\ counts.valid = MaxTotal
    /\ counts.fields_found["read_id"] = MaxTotal
    /\ counts.fields_not_found["calibration_strand_genome_template"] = MaxTotal

\* ------------------------------------------------------------------ C33
\* The fields of fields that no read's dict has, and the reads worker w has
\* been through.
AbsentFields == {field \in Range(fields) : field \notin EntryKeys}
ReadsThrough(w) == worker_c[w].valid + worker_c[w].invalid
\* What else an error on error_q comes from: no file found, a file that
\* cannot be read, no record to make the table of.
OtherCause(e) ==
    \/ e = NoFastq /\ npush = 0
    \/ e.by = "_read_fastq" /\ BadPopped # {} /\ e.msg = "iterate_fastq_parallel"
    \/ e.by = "_write_seq_summary" /\ nsrc = N /\ l = <<>>

\* C33: a field of fields that is no key of a read's dict (of the default
\* fields, calibration_strand_genome_template) adds one to the worker's
\* fields_not_found of that field for every read and nothing to its
\* fields_found; no error is put on error_q because of it, every error
\* there having another cause, and the runs with such a field do end with
\* the table written and the constructor returned.
C33_AbsentFieldOnlyCounted ==
    /\ AbsentFields # {}
    /\ \A w \in Workers : \A field \in AbsentFields :
            /\ worker_c[w].fields_not_found[field] = ReadsThrough(w)
            /\ worker_c[w].fields_found[field] = 0
    /\ \A k \in 1..Len(ErrHist) : IsError(ErrHist[k]) => OtherCause(ErrHist[k])
    /\ (orch = "returned" /\ AllExited) => csv.written /\ Len(csv.rows) = Len(sent)

C33_Witness ==
    /\ Done
    /\ tb = <<None>>
    /\ counts.fields_not_found["calibration_strand_genome_template"] = MaxTotal
    /\ counts.fields_found["calibration_strand_genome_template"] = 0
    /\ Len(csv.rows) = MaxTotal

\* ------------------------------------------------------------------ C34
\* No field of fields is a key of a read's dict and include_path is off.
NoneFound == FoundKeys[fields] = <<>> /\ ~include_path
\* Worker w goes through one read in the step.
TurnOf(w) == pc[Proc(w)] = "put" /\ value_dict'[w] # value_dict[w]

\* C34: a read of which no field of fields is found, include_path being
\* off, is not put on out_q and adds one to the worker's invalid count and
\* nothing to its valid count; a read of which a field is found is put on
\* out_q once and adds one to valid and nothing to invalid.  So the
\* records put are as many as the valid counts of the workers together.
C34_PutIffFieldFound ==
    /\ [](Len(sent) = Sum([w \in Workers |-> worker_c[w].valid]))
    /\ [][\A w \in Workers : TurnOf(w) =>
            /\ Len(value_dict'[w]) = Len(value_dict[w]) - 1
            /\ IF NoneFound
               THEN /\ out_q' = out_q /\ sent' = sent
                    /\ worker_c'[w].invalid = worker_c[w].invalid + 1
                    /\ worker_c'[w].valid = worker_c[w].valid
               ELSE /\ Len(out_q') = Len(out_q) + 1
                    /\ SubSeq(out_q', 1, Len(out_q)) = out_q
                    /\ out_q'[Len(out_q')].tag = "rec"
                    /\ sent' = Append(sent, Fetch(Head(value_dict[w])))
                    /\ worker_c'[w].valid = worker_c[w].valid + 1
                    /\ worker_c'[w].invalid = worker_c[w].invalid]_vars

C34_Witness ==
    /\ NoneFound
    /\ worker_c[1].invalid = 3 /\ worker_c[1].valid = 0
    /\ sent = <<>> /\ l = <<>>
    /\ pc[Writer] = "end"

\* ------------------------------------------------------------------ C35
\* The records that came off the workers so far, in the order they were
\* put: those the writer has in l, then those still on out_q.
Arrived == l \o SelectSeq(out_q, LAMBDA m : m.tag = "rec")
FileOf(rec) == rec.id \div (MaxReads + 1)

\* C35 (as claimed): every record the writer gets has the read_id and the
\* start_time of the read its worker put it for, and never those of a later
\* read of the same file, although d is one object for all the reads of a
\* file.
C35_RecordsCarryTheirRead ==
    \A k \in 1..Len(Arrived) :
        /\ Arrived[k].id = sent[k].id
        /\ Arrived[k].ts = sent[k].ts

\* What holds of it: a record has the values of its read or of a later
\* read of the same file, and the records of a file's last read are whole.
C35_OwnOrLaterRead ==
    /\ Len(Arrived) = Len(sent)
    /\ \A k \in 1..Len(Arrived) :
            /\ FileOf(Arrived[k]) = FileOf(sent[k])
            /\ Arrived[k].id >= sent[k].id
            /\ sent[k] = Fetch(ReadsOf(FileOf(sent[k]))[Len(ReadsOf(FileOf(sent[k])))])
                    => Arrived[k] = sent[k]

\* ------------------------------------------------------------------ C36
\* The orchestrator is in its first error_q.get(), every process started.
Waiting == orch = "start" /\ oi = NP
\* Who put the errors that are or were on error_q.
FailedUnits == {ErrHist[k].by : k \in Errors(ErrHist)}

\* C36: whichever of the lister, the workers and the writer fail, under
\* fair scheduling the error_q.get() of the orchestrator returns: what it
\* returns is a traceback some process put, or the None the writer put as
\* its last step.
C36_ErrorReadReturns ==
    /\ Waiting ~> tb # <<>>
    /\ [](tb # <<>> =>
            \/ IsError(tb[1])
            \/ tb[1] = None /\ pc[Writer] \in {"exited", "killed"})
    /\ [](orch \in {"join", "terminate", "returned", "raised"} => tb # <<>>)

C36_Witness ==
    /\ tb # <<>>
    /\ orch = "raised"
    /\ walk_raises
    /\ FailedUnits = {"_list_fastq", "_read_fastq", "_write_seq_summary"}

\* ------------------------------------------------------------------ C37
\* The reads of the files taken from in_q so far, all by the one worker
\* there is when threads is MinThreads, and how often fields names a field.
RECURSIVE ReadsOfFiles(_)
ReadsOfFiles(fns) ==
    IF fns = <<>> THEN 0 ELSE Len(ReadsOf(Head(fns))) + ReadsOfFiles(Tail(fns))
ReadsTaken == ReadsOfFiles(popped)
Mentions(field) == Cardinality({k \in 1..Len(fields) : fields[k] = field})
\* Worker w is at counter_q.put(c), line 327.
Flushing(w) == pc[Proc(w)] = "count"
\* valid + invalid is the number of reads, the records put are the valid
\* ones, and the table of a run that returned has valid rows.
ReadsAddUp ==
    /\ \A w \in Workers : Flushing(w) =>
            /\ worker_c[w].valid + worker_c[w].invalid = ReadsTaken
            /\ Len(sent) = worker_c[w].valid
    /\ Done => Len(csv.rows) = counts.valid

\* C37 (as claimed): when a worker flushes its counters, valid + invalid is
\* the number of reads of the files it went through, the records it put
\* are valid many, and for every field of fields fields_found +
\* fields_not_found is that same number of reads; the table of a run that
\* returned has as many rows as the summed valid count.
C37_CountersAddUp ==
    /\ ReadsAddUp
    /\ \A w \in Workers : Flushing(w) =>
            \A field \in Range(fields) :
                worker_c[w].fields_found[field] + worker_c[w].fields_not_found[field]
                    = ReadsTaken

\* C37 (amended): the same, fields_found + fields_not_found of a field
\* being the number of reads times the number of times fields names it.
C37_CountersAddUpPerMention ==
    /\ N = 1
    /\ ReadsAddUp
    /\ \A w \in Workers : Flushing(w) =>
            \A field \in Range(fields) :
                /\ worker_c[w].fields_found[field] + worker_c[w].fields_not_found[field]
                        = ReadsTaken * Mentions(field)
                /\ worker_c[w].fields_found[field] = 0
                        \/ worker_c[w].fields_not_found[field] = 0

C37_Witness ==
    /\ Flushing(1)
    /\ fields = <<"read_id", "start_time", "read_id">>
    /\ ReadsTaken = 3
    /\ worker_c[1].valid = 3
    /\ worker_c[1].fields_found["read_id"] = 6
    /\ worker_c[1].fields_found["start_time"] = 3

\* ------------------------------------------------------------------ C38
\* The writer has all its records and none of them has start_time.
NoStartTimeColumn == nsrc = N /\ ~HasStartTime(l)
WriterErrors ==
    {k \in Errors(ErrHist) : ErrHist[k] = Error("_write_seq_summary", "KeyError: 'start_time'")}

\* C38: when no record of l has start_time (fields does not name it, or l
\* is empty) the writer raises at df['start_time'] before to_csv: the
\* table is never written, the writer puts one traceback on error_q and
\* then, as its last step, None; the orchestrator never takes the run for a
\* success, and under fair scheduling raises an error to the caller.
C38_NoStartTimeFailsTheRun ==
    /\ [](NoStartTimeColumn =>
            /\ ~csv.written
            /\ pc[Writer] # "summarize"
            /\ ncnt = 0
            /\ pc[Writer] \in {"end", "exited"} => Cardinality(WriterErrors) = 1
            /\ pc[Writer] \in {"collect", "write"} => WriterErrors = {}
            /\ pc[Writer] = "exited" =>
                    /\ ErrHist[Len(ErrHist)] = None
                    /\ WriterErrors = {Len(ErrHist) - 1}
            /\ orch \notin {"join", "returned"}
            /\ orch = "raised" => IsError(raised[1]))
    /\ (Waiting /\ NoStartTimeColumn) ~> (orch = "raised" /\ ~csv.written)

C38_Witness ==
    /\ NoStartTimeColumn
    /\ fields = <<"read_id", "mean_qscore_template">>
    /\ Len(l) = 3
    /\ pc[Writer] = "exited"
    /\ orch = "raised"
    /\ raised = <<Error("_write_seq_summary", "KeyError: 'start_time'")>>
    /\ error_q = <<None>>
====
